---- MODULE Spec2Model ----
(***************************************************************************)
(* A model of the verify assertion library: the assertion object model of  *)
(* verify/base.py, the Not and Predicate wrappers of verify/logic.py, the  *)
(* comparators of verify/equality.py and verify/numbers.py, and the expect *)
(* runner with its name resolution of verify/runners.py.                   *)
(*                                                                         *)
(* Python objects are records tagged by a field t.  Attribute names are    *)
(* sequences of one-character strings, so that splitting, capitalising and *)
(* prefix stripping are computed character by character.                   *)
(***************************************************************************)
EXTENDS Integers, Sequences, FiniteSets, TLC

VARIABLES session, obj, config, last

vars == <<session, obj, config, last>>

\* Largest int among the subject and comparable values that are enumerated.
MaxInt == 1

\* Longest argument list handed to one batch call.
MaxBatch == 2

(***************************************************************************)
(* Python values                                                           *)
(***************************************************************************)
PyNone == [t |-> "NoneType", v |-> 0]

PyBool(b) == [t |-> "bool", v |-> IF b THEN 1 ELSE 0]

PyInt(n) == [t |-> "int", v |-> n]

PyTrue == PyBool(TRUE)

PyFalse == PyBool(FALSE)

\* The sentinel that marks a positional argument that was not passed.
NotSet == [t |-> "_NotSet", v |-> 0]

Class(name) == [t |-> "class", cls |-> name]

Function(name) == [t |-> "function", name |-> name]

\* A list or a tuple: its items, in order.
PyList(items) == [t |-> "list", items |-> items]

\* A str: its characters.
PyStr(chars) == [t |-> "str", chars |-> chars]

\* A dict: its keys and, at the same positions, their values.
PyDict(keys, vals) == [t |-> "dict", keys |-> keys, vals |-> vals]

Values == {PyNone, PyFalse, PyTrue} \cup {PyInt(n) : n \in 0..MaxInt}

\* bool(x): None, False, 0 and the empty containers are falsy, every other
\* object is truthy.
Truth(x) ==
    CASE x.t = "NoneType" -> FALSE
      [] x.t \in {"bool", "int"} -> x.v # 0
      [] x.t = "list" -> x.items # <<>>
      [] x.t = "str" -> x.chars # <<>>
      [] x.t = "dict" -> x.keys # <<>>
      [] OTHER -> TRUE

IsNumber(x) == x.t \in {"bool", "int"}

\* operator.eq on the enumerated values: bool is an int, lists are equal item
\* by item, None equals only None.
PyEq(a, b) ==
    CASE IsNumber(a) /\ IsNumber(b) -> a.v = b.v
      [] a.t = "list" /\ b.t = "list" ->
            /\ Len(a.items) = Len(b.items)
            /\ \A i \in 1..Len(a.items) :
                   IF IsNumber(a.items[i]) /\ IsNumber(b.items[i])
                   THEN a.items[i].v = b.items[i].v
                   ELSE a.items[i] = b.items[i]
      [] a.t = "str" /\ b.t = "str" -> a.chars = b.chars
      [] OTHER -> a.t = b.t /\ a = b

\* operator.is_: identity of the interned singletons and small ints.
PyIs(a, b) == a = b

\* The rich comparisons are defined between numbers only.
Orderable(a, b) == IsNumber(a) /\ IsNumber(b)

\* x in c: membership by == in a list, among the keys of a dict, substring in
\* a str; TypeError when c is not a container or x is not a str and c is.
PyIn(x, c) ==
    CASE c.t = "list" ->
            [out |-> "return",
             val |-> PyBool(\E i \in 1..Len(c.items) : PyEq(c.items[i], x)),
             msg |-> <<>>]
      [] c.t = "dict" ->
            [out |-> "return",
             val |-> PyBool(\E i \in 1..Len(c.keys) : PyEq(c.keys[i], x)),
             msg |-> <<>>]
      [] c.t = "str" /\ x.t = "str" ->
            [out |-> "return",
             val |-> PyBool(\E i \in 0..(Len(c.chars) - Len(x.chars)) :
                               SubSeq(c.chars, i + 1, i + Len(x.chars)) = x.chars),
             msg |-> <<>>]
      [] OTHER -> [out |-> "TypeError", val |-> PyNone, msg |-> <<>>]

IsIterable(x) == x.t \in {"list", "str", "dict"}

\* The items that iterating over x yields: of a dict, its keys.
Items(x) ==
    CASE x.t = "list" -> x.items
      [] x.t = "dict" -> x.keys
      [] OTHER -> [i \in 1..Len(x.chars) |-> PyStr(<<x.chars[i]>>)]

\* len(x) of a list or a str.
PyLen(x) == Len(Items(x))

(***************************************************************************)
(* Results of a call: a returned object or a raised exception.             *)
(***************************************************************************)
NoMessage == <<>>

Ret(x) == [out |-> "return", val |-> x, msg |-> NoMessage]

Raise(exc, m) == [out |-> exc, val |-> PyNone, msg |-> m]

\* Keyword options of a call: msg is <<>> when absent, <<text>> when given.
NoOpts == [msg |-> <<>>]

WithMsg(text) == [msg |-> <<text>>]

(***************************************************************************)
(* Message templates: a template is a sequence of literal parts and        *)
(* replacement fields, as str.format reads it.                             *)
(***************************************************************************)
Lit(s) == [part |-> "literal", text |-> s]

Fld(k) == [part |-> "field", name |-> k]

Rep(x) == [part |-> "value", val |-> x]

\* The reason attribute of each modelled class.
Reason(cls) ==
    CASE cls = "Truthy" -> <<Fld("0"), Lit(" is not truthy")>>
      [] cls = "Falsy" -> <<Fld("0"), Lit(" is not falsy")>>
      [] cls = "Not" -> <<Lit("The negation of "), Fld("comparable"),
                         Lit(" should not be true when evaluated with "), Fld("0")>>
      [] cls = "Predicate" -> <<Lit("The evaluation of "), Fld("0"), Lit(" using "),
                               Fld("comparable"), Lit(" is false")>>
      [] cls = "Equal" -> <<Fld("0"), Lit(" is not equal to "), Fld("comparable")>>
      [] cls = "NotEqual" -> <<Fld("0"), Lit(" is equal to "), Fld("comparable")>>
      [] cls = "Is" -> <<Fld("0"), Lit(" is not "), Fld("comparable")>>
      [] cls = "IsNot" -> <<Fld("0"), Lit(" is "), Fld("comparable")>>
      [] cls = "IsTrue" -> <<Fld("0"), Lit(" is not True")>>
      [] cls = "IsNotTrue" -> <<Fld("0"), Lit(" is True")>>
      [] cls = "IsFalse" -> <<Fld("0"), Lit(" is not False")>>
      [] cls = "IsNotFalse" -> <<Fld("0"), Lit(" is False")>>
      [] cls = "IsNone" -> <<Fld("0"), Lit(" is not None")>>
      [] cls = "IsNotNone" -> <<Fld("0"), Lit(" is None")>>
      [] cls = "Greater" -> <<Fld("0"), Lit(" is not greater than "), Fld("comparable")>>
      [] cls = "GreaterEqual" ->
            <<Fld("0"), Lit(" is not greater than or equal to "), Fld("comparable")>>
      [] cls = "Less" -> <<Fld("0"), Lit(" is not less than "), Fld("comparable")>>
      [] cls = "LessEqual" ->
            <<Fld("0"), Lit(" is not less than or equal to "), Fld("comparable")>>
      [] cls = "Between" ->
            <<Fld("0"), Lit(" is not between "), Fld("min"), Lit(" and "), Fld("max")>>
      [] cls = "NotBetween" ->
            <<Fld("0"), Lit(" is between "), Fld("min"), Lit(" and "), Fld("max")>>
      [] cls = "Length" ->
            <<Fld("0"), Lit(" does not have length between "), Fld("min"), Lit(" and "),
              Fld("max")>>
      [] cls = "NotLength" ->
            <<Fld("0"), Lit(" has length between "), Fld("min"), Lit(" and "), Fld("max")>>
      [] cls = "In" -> <<Fld("0"), Lit(" is not in "), Fld("comparable")>>
      [] cls = "NotIn" -> <<Fld("0"), Lit(" is in "), Fld("comparable")>>
      [] cls = "Contains" -> <<Fld("0"), Lit(" does not contain "), Fld("comparable")>>
      [] cls = "NotContains" -> <<Fld("0"), Lit(" contains "), Fld("comparable")>>
      [] cls = "ContainsOnly" ->
            <<Fld("0"), Lit(" does not only contain values in "), Fld("comparable")>>
      [] cls = "NotContainsOnly" -> <<Fld("0"), Lit(" contains only "), Fld("comparable")>>
      [] cls = "Unique" -> <<Fld("0"), Lit(" contains duplicate items")>>
      [] cls = "NotUnique" -> <<Fld("0"), Lit(" is unique")>>
      [] cls = "All" -> <<Fld("0"), Lit(" is not true for all "), Fld("comparable")>>
      [] cls = "NotAll" -> <<Fld("0"), Lit(" is true for all "), Fld("comparable")>>
      [] cls = "Any" -> <<Fld("0"), Lit(" is not true for any "), Fld("comparable")>>
      [] cls = "NotAny" -> <<Fld("0"), Lit(" is true for some "), Fld("comparable")>>
      [] cls = "Match" ->
            <<Fld("0"), Lit(" does not match the regular expression "), Fld("comparable")>>
      [] cls = "NotMatch" ->
            <<Fld("0"), Lit(" matches the regular expression "), Fld("comparable")>>
      [] cls = "DateString" ->
            <<Fld("0"), Lit(" does not match the datetime format "), Fld("comparable")>>
      [] cls = "NotDateString" ->
            <<Fld("0"), Lit(" matches the datetime format "), Fld("comparable")>>
      [] OTHER -> <<>>

\* The classes whose operation is modelled.
UnaryClasses ==
    {"Truthy", "Falsy", "IsTrue", "IsNotTrue", "IsFalse", "IsNotFalse", "IsNone",
     "IsNotNone"}

ValueComparators ==
    {"Equal", "NotEqual", "Is", "IsNot", "Greater", "GreaterEqual", "Less", "LessEqual"}

WrapperClasses == {"Not", "Predicate"}

ComparatorClasses == ValueComparators \cup WrapperClasses

ModelledClasses == UnaryClasses \cup ComparatorClasses

\* The range checks, configured by the options min and max.
RangeClasses == {"Between", "NotBetween", "Length", "NotLength"}

\* The containment checks.
ContainerComparators ==
    {"In", "NotIn", "Contains", "NotContains", "ContainsOnly", "NotContainsOnly"}

UniqueClasses == {"Unique", "NotUnique"}

\* The checks of a subject against a list of predicates.
JunctionClasses == {"All", "NotAll", "Any", "NotAny"}

\* The checks of a str against a pattern or a format.
TextClasses == {"Match", "NotMatch", "DateString", "NotDateString"}

(***************************************************************************)
(* The names of the verify package                                         *)
(***************************************************************************)
\* BaseNames: the public names bound at module level in verify/base.py
BaseNames ==
    <<"N","o","t","S","e","t">> :> NotSet @@
    <<"A","s","s","e","r","t","i","o","n">> :> Class("Assertion") @@
    <<"C","o","m","p","a","r","a","t","o","r">> :> Class("Comparator") @@
    <<"N","e","g","a","t","e">> :> Class("Negate") @@
    <<"i","s","_","a","s","s","e","r","t","i","o","n">> :> Function("is_assertion")

\* RunnersNames: the public names bound at module level in verify/runners.py
RunnersNames ==
    <<"e","x","p","e","c","t">> :> Class("expect") @@
    <<"e","n","s","u","r","e">> :> Class("expect")

\* LogicNames: the public names bound at module level in verify/logic.py
LogicNames ==
    <<"T","r","u","t","h","y">> :> Class("Truthy") @@
    <<"t","o","_","b","e","_","t","r","u","t","h","y">> :> Class("Truthy") @@
    <<"i","s","_","t","r","u","t","h","y">> :> Class("Truthy") @@
    <<"F","a","l","s","y">> :> Class("Falsy") @@
    <<"t","o","_","b","e","_","f","a","l","s","y">> :> Class("Falsy") @@
    <<"i","s","_","f","a","l","s","y">> :> Class("Falsy") @@
    <<"N","o","t">> :> Class("Not") @@
    <<"n","o","t","_">> :> Class("Not") @@
    <<"d","o","e","s","_","n","o","t">> :> Class("Not") @@
    <<"t","o","_","f","a","i","l">> :> Class("Not") @@
    <<"f","a","i","l","s">> :> Class("Not") @@
    <<"P","r","e","d","i","c","a","t","e">> :> Class("Predicate") @@
    <<"d","o","e","s">> :> Class("Predicate") @@
    <<"t","o","_","p","a","s","s">> :> Class("Predicate") @@
    <<"p","a","s","s","e","s">> :> Class("Predicate") @@
    <<"A","l","l">> :> Class("All") @@
    <<"a","l","l","_">> :> Class("All") @@
    <<"d","o","e","s","_","a","l","l">> :> Class("All") @@
    <<"p","a","s","s","e","s","_","a","l","l">> :> Class("All") @@
    <<"N","o","t","A","l","l">> :> Class("NotAll") @@
    <<"n","o","t","_","a","l","l">> :> Class("NotAll") @@
    <<"d","o","e","s","_","n","o","t","_","a","l","l">> :> Class("NotAll") @@
    <<"f","a","i","l","s","_","a","l","l">> :> Class("NotAll") @@
    <<"A","n","y">> :> Class("Any") @@
    <<"a","n","y","_">> :> Class("Any") @@
    <<"d","o","e","s","_","a","n","y">> :> Class("Any") @@
    <<"p","a","s","s","e","s","_","a","n","y">> :> Class("Any") @@
    <<"N","o","t","A","n","y">> :> Class("NotAny") @@
    <<"n","o","t","_","a","n","y">> :> Class("NotAny") @@
    <<"d","o","e","s","_","n","o","t","_","a","n","y">> :> Class("NotAny") @@
    <<"f","a","i","l","s","_","a","n","y">> :> Class("NotAny")

\* EqualityNames: the public names bound at module level in verify/equality.py
EqualityNames ==
    <<"E","q","u","a","l">> :> Class("Equal") @@
    <<"t","o","_","b","e","_","e","q","u","a","l">> :> Class("Equal") @@
    <<"i","s","_","e","q","u","a","l">> :> Class("Equal") @@
    <<"N","o","t","E","q","u","a","l">> :> Class("NotEqual") @@
    <<"t","o","_","n","o","t","_","b","e","_","e","q","u","a","l">> :> Class("NotEqual") @@
    <<"i","s","_","n","o","t","_","e","q","u","a","l">> :> Class("NotEqual") @@
    <<"M","a","t","c","h">> :> Class("Match") @@
    <<"t","o","_","m","a","t","c","h">> :> Class("Match") @@
    <<"i","s","_","m","a","t","c","h">> :> Class("Match") @@
    <<"m","a","t","c","h","e","s">> :> Class("Match") @@
    <<"N","o","t","M","a","t","c","h">> :> Class("NotMatch") @@
    <<"t","o","_","n","o","t","_","m","a","t","c","h">> :> Class("NotMatch") @@
    <<"i","s","_","n","o","t","_","m","a","t","c","h">> :> Class("Match") @@
    <<"d","o","e","s","_","n","o","t","_","m","a","t","c","h">> :> Class("NotMatch") @@
    <<"I","s">> :> Class("Is") @@
    <<"t","o","_","b","e">> :> Class("Is") @@
    <<"i","s","_">> :> Class("Is") @@
    <<"I","s","N","o","t">> :> Class("IsNot") @@
    <<"t","o","_","n","o","t","_","b","e">> :> Class("IsNot") @@
    <<"i","s","_","n","o","t">> :> Class("IsNot") @@
    <<"I","s","T","r","u","e">> :> Class("IsTrue") @@
    <<"t","o","_","b","e","_","t","r","u","e">> :> Class("IsTrue") @@
    <<"i","s","_","t","r","u","e">> :> Class("IsTrue") @@
    <<"I","s","N","o","t","T","r","u","e">> :> Class("IsNotTrue") @@
    <<"t","o","_","n","o","t","_","b","e","_","t","r","u","e">> :> Class("IsNotTrue") @@
    <<"i","s","_","n","o","t","_","t","r","u","e">> :> Class("IsNotTrue") @@
    <<"I","s","F","a","l","s","e">> :> Class("IsFalse") @@
    <<"t","o","_","b","e","_","f","a","l","s","e">> :> Class("IsFalse") @@
    <<"i","s","_","f","a","l","s","e">> :> Class("IsFalse") @@
    <<"I","s","N","o","t","F","a","l","s","e">> :> Class("IsNotFalse") @@
    <<"t","o","_","n","o","t","_","b","e","_","f","a","l","s","e">> :> Class("IsNotFalse") @@
    <<"i","s","_","n","o","t","_","f","a","l","s","e">> :> Class("IsNotFalse") @@
    <<"I","s","N","o","n","e">> :> Class("IsNone") @@
    <<"t","o","_","b","e","_","n","o","n","e">> :> Class("IsNone") @@
    <<"i","s","_","n","o","n","e">> :> Class("IsNone") @@
    <<"I","s","N","o","t","N","o","n","e">> :> Class("IsNotNone") @@
    <<"t","o","_","n","o","t","_","b","e","_","n","o","n","e">> :> Class("IsNotNone") @@
    <<"i","s","_","n","o","t","_","n","o","n","e">> :> Class("IsNotNone")

\* NumbersNames: the public names bound at module level in verify/numbers.py
NumbersNames ==
    <<"G","r","e","a","t","e","r">> :> Class("Greater") @@
    <<"G","r","e","a","t","e","r","T","h","a","n">> :> Class("Greater") @@
    <<"t","o","_","b","e","_","g","r","e","a","t","e","r">> :> Class("Greater") @@
    <<"t","o","_","b","e","_","g","r","e","a","t","e","r","_","t","h","a","n">> :> Class("Greater") @@
    <<"i","s","_","g","r","e","a","t","e","r">> :> Class("Greater") @@
    <<"i","s","_","g","r","e","a","t","e","r","_","t","h","a","n">> :> Class("Greater") @@
    <<"G","r","e","a","t","e","r","E","q","u","a","l">> :> Class("GreaterEqual") @@
    <<"G","r","e","a","t","e","r","O","r","E","q","u","a","l">> :> Class("GreaterEqual") @@
    <<"t","o","_","b","e","_","g","r","e","a","t","e","r","_","e","q","u","a","l">> :> Class("GreaterEqual") @@
    <<"t","o","_","b","e","_","g","r","e","a","t","e","r","_","o","r","_","e","q","u","a","l">> :> Class("GreaterEqual") @@
    <<"i","s","_","g","r","e","q","t","e","r","_","e","q","u","a","l">> :> Class("GreaterEqual") @@
    <<"i","s","_","g","r","e","a","t","e","r","_","o","r","_","e","q","u","a","l">> :> Class("GreaterEqual") @@
    <<"L","e","s","s">> :> Class("Less") @@
    <<"L","e","s","s","T","h","a","n">> :> Class("Less") @@
    <<"t","o","_","b","e","_","l","e","s","s">> :> Class("Less") @@
    <<"t","o","_","b","e","_","l","e","s","s","_","t","h","a","n">> :> Class("Less") @@
    <<"i","s","_","l","e","s","s">> :> Class("Less") @@
    <<"i","s","_","l","e","s","s","_","t","h","a","n">> :> Class("Less") @@
    <<"L","e","s","s","E","q","u","a","l">> :> Class("LessEqual") @@
    <<"L","e","s","s","O","r","E","q","u","a","l">> :> Class("LessEqual") @@
    <<"t","o","_","b","e","_","l","e","s","s","_","e","q","u","a","l">> :> Class("LessEqual") @@
    <<"t","o","_","b","e","_","l","e","s","s","_","o","r","_","e","q","u","a","l">> :> Class("LessEqual") @@
    <<"i","s","_","l","e","s","s","_","e","q","u","a","l">> :> Class("LessEqual") @@
    <<"i","s","_","l","e","s","s","_","o","r","_","e","q","u","a","l">> :> Class("LessEqual") @@
    <<"B","e","t","w","e","e","n">> :> Class("Between") @@
    <<"t","o","_","b","e","_","b","e","t","w","e","e","n">> :> Class("Between") @@
    <<"i","s","_","b","e","t","w","e","e","n">> :> Class("Between") @@
    <<"N","o","t","B","e","t","w","e","e","n">> :> Class("NotBetween") @@
    <<"t","o","_","n","o","t","_","b","e","_","b","e","t","w","e","e","n">> :> Class("NotBetween") @@
    <<"i","s","_","n","o","t","_","b","e","t","w","e","e","n">> :> Class("NotBetween") @@
    <<"P","o","s","i","t","i","v","e">> :> Class("Positive") @@
    <<"t","o","_","b","e","_","p","o","s","i","t","i","v","e">> :> Class("Positive") @@
    <<"i","s","_","p","o","s","i","t","i","v","e">> :> Class("Positive") @@
    <<"N","e","g","a","t","i","v","e">> :> Class("Negative") @@
    <<"t","o","_","b","e","_","n","e","g","a","t","i","v","e">> :> Class("Negative") @@
    <<"i","s","_","n","e","g","a","t","i","v","e">> :> Class("Negative") @@
    <<"E","v","e","n">> :> Class("Even") @@
    <<"t","o","_","b","e","_","e","v","e","n">> :> Class("Even") @@
    <<"i","s","_","e","v","e","n">> :> Class("Even") @@
    <<"O","d","d">> :> Class("Odd") @@
    <<"t","o","_","b","e","_","o","d","d">> :> Class("Odd") @@
    <<"i","s","_","o","d","d">> :> Class("Odd") @@
    <<"M","o","n","o","t","o","n","e">> :> Class("Monotone") @@
    <<"t","o","_","b","e","_","m","o","n","o","t","o","n","e">> :> Class("Monotone") @@
    <<"i","s","_","m","o","n","o","t","o","n","e">> :> Class("Monotone") @@
    <<"I","n","c","r","e","a","s","i","n","g">> :> Class("Increasing") @@
    <<"t","o","_","b","e","_","i","n","c","r","e","a","s","i","n","g">> :> Class("Increasing") @@
    <<"i","s","_","i","n","c","r","e","a","s","i","n","g">> :> Class("Increasing") @@
    <<"S","t","r","i","c","t","l","y","I","n","c","r","e","a","s","i","n","g">> :> Class("StrictlyIncreasing") @@
    <<"t","o","_","b","e","_","s","t","r","i","c","t","l","y","_","i","n","c","r","e","a","s","i","n","g">> :> Class("StrictlyIncreasing") @@
    <<"i","s","_","s","t","r","i","c","t","l","y","_","i","n","c","r","e","a","s","i","n","g">> :> Class("StrictlyIncreasing") @@
    <<"D","e","c","r","e","a","s","i","n","g">> :> Class("Decreasing") @@
    <<"t","o","_","b","e","_","d","e","c","r","e","a","s","i","n","g">> :> Class("Decreasing") @@
    <<"i","s","_","d","e","c","r","e","a","s","i","n","g">> :> Class("Decreasing") @@
    <<"S","t","r","i","c","t","l","y","D","e","c","r","e","a","s","i","n","g">> :> Class("StrictlyDecreasing") @@
    <<"t","o","_","b","e","_","s","t","r","i","c","t","l","y","_","d","e","c","r","e","a","s","i","n","g">> :> Class("StrictlyDecreasing") @@
    <<"i","s","_","s","t","r","i","c","t","l","y","_","d","e","c","r","e","a","s","i","n","g">> :> Class("StrictlyDecreasing")

\* ContainersNames: the public names bound at module level in verify/containers.py
ContainersNames ==
    <<"I","n">> :> Class("In") @@
    <<"t","o","_","b","e","_","i","n">> :> Class("In") @@
    <<"i","s","_","i","n">> :> Class("In") @@
    <<"N","o","t","I","n">> :> Class("NotIn") @@
    <<"t","o","_","n","o","t","_","b","e","_","i","n">> :> Class("NotIn") @@
    <<"i","s","_","n","o","t","_","i","n">> :> Class("NotIn") @@
    <<"C","o","n","t","a","i","n","s">> :> Class("Contains") @@
    <<"t","o","_","c","o","n","t","a","i","n">> :> Class("Contains") @@
    <<"c","o","n","t","a","i","n","s">> :> Class("Contains") @@
    <<"N","o","t","C","o","n","t","a","i","n","s">> :> Class("NotContains") @@
    <<"t","o","_","n","o","t","_","c","o","n","t","a","i","n">> :> Class("NotContains") @@
    <<"d","o","e","s","_","n","o","t","_","c","o","n","t","a","i","n">> :> Class("NotContains") @@
    <<"C","o","n","t","a","i","n","s","O","n","l","y">> :> Class("ContainsOnly") @@
    <<"t","o","_","c","o","n","t","a","i","n","_","o","n","l","y">> :> Class("ContainsOnly") @@
    <<"c","o","n","t","a","i","n","s","_","o","n","l","y">> :> Class("ContainsOnly") @@
    <<"N","o","t","C","o","n","t","a","i","n","s","O","n","l","y">> :> Class("NotContainsOnly") @@
    <<"t","o","_","n","o","t","_","c","o","n","t","a","i","n","_","o","n","l","y">> :> Class("NotContainsOnly") @@
    <<"d","o","e","s","_","n","o","t","_","c","o","n","t","a","i","n","_","o","n","l","y">> :> Class("NotContainsOnly") @@
    <<"S","u","b","s","e","t">> :> Class("Subset") @@
    <<"t","o","_","b","e","_","s","u","b","s","e","t">> :> Class("Subset") @@
    <<"i","s","_","s","u","b","s","e","t">> :> Class("Subset") @@
    <<"N","o","t","S","u","b","s","e","t">> :> Class("NotSubset") @@
    <<"t","o","_","n","o","t","_","b","e","_","s","u","b","s","e","t">> :> Class("NotSubset") @@
    <<"i","s","_","n","o","t","_","s","u","b","s","e","t">> :> Class("NotSubset") @@
    <<"S","u","p","e","r","s","e","t">> :> Class("Superset") @@
    <<"t","o","_","b","e","_","s","u","p","e","r","s","e","t">> :> Class("Superset") @@
    <<"i","s","_","s","u","p","e","r","s","e","t">> :> Class("Superset") @@
    <<"N","o","t","S","u","p","e","r","s","e","t">> :> Class("NotSuperset") @@
    <<"t","o","_","n","o","t","_","b","e","_","s","u","p","e","r","s","e","t">> :> Class("NotSuperset") @@
    <<"i","s","_","n","o","t","_","s","u","p","e","r","s","e","t">> :> Class("NotSuperset") @@
    <<"U","n","i","q","u","e">> :> Class("Unique") @@
    <<"t","o","_","b","e","_","u","n","i","q","u","e">> :> Class("Unique") @@
    <<"i","s","_","u","n","i","q","u","e">> :> Class("Unique") @@
    <<"N","o","t","U","n","i","q","u","e">> :> Class("NotUnique") @@
    <<"t","o","_","n","o","t","_","b","e","_","u","n","i","q","u","e">> :> Class("NotUnique") @@
    <<"i","s","_","n","o","t","_","u","n","i","q","u","e">> :> Class("NotUnique") @@
    <<"L","e","n","g","t","h">> :> Class("Length") @@
    <<"t","o","_","h","a","v","e","_","l","e","n","g","t","h">> :> Class("Length") @@
    <<"h","a","s","_","l","e","n","g","t","h">> :> Class("Length") @@
    <<"N","o","t","L","e","n","g","t","h">> :> Class("NotLength") @@
    <<"t","o","_","n","o","t","_","h","a","v","e","_","l","e","n","g","t","h">> :> Class("NotLength") @@
    <<"d","o","e","s","_","n","o","t","_","h","a","v","e","_","l","e","n","g","t","h">> :> Class("NotLength")

\* TypesNames: the public names bound at module level in verify/types.py
TypesNames ==
    <<"T","y","p","e">> :> Class("Type") @@
    <<"t","o","_","b","e","_","t","y","p","e">> :> Class("Type") @@
    <<"i","s","_","t","y","p","e">> :> Class("Type") @@
    <<"N","o","t","T","y","p","e">> :> Class("NotType") @@
    <<"t","o","_","n","o","t","_","b","e","_","t","y","p","e">> :> Class("NotType") @@
    <<"i","s","_","n","o","t","_","t","y","p","e">> :> Class("NotType") @@
    <<"B","o","o","l","e","a","n">> :> Class("Boolean") @@
    <<"t","o","_","b","e","_","b","o","o","l","e","a","n">> :> Class("Boolean") @@
    <<"i","s","_","b","o","o","l","e","a","n">> :> Class("Boolean") @@
    <<"N","o","t","B","o","o","l","e","a","n">> :> Class("NotBoolean") @@
    <<"t","o","_","n","o","t","_","b","e","_","b","o","o","l","e","a","n">> :> Class("NotBoolean") @@
    <<"i","s","_","n","o","t","_","b","o","o","l","e","a","n">> :> Class("NotBoolean") @@
    <<"S","t","r","i","n","g">> :> Class("String") @@
    <<"t","o","_","b","e","_","s","t","r","i","n","g">> :> Class("String") @@
    <<"i","s","_","s","t","r","i","n","g">> :> Class("String") @@
    <<"N","o","t","S","t","r","i","n","g">> :> Class("NotString") @@
    <<"t","o","_","n","o","t","_","b","e","_","s","t","r","i","n","g">> :> Class("NotString") @@
    <<"i","s","_","n","o","t","_","s","t","r","i","n","g">> :> Class("NotString") @@
    <<"D","i","c","t">> :> Class("Dict") @@
    <<"t","o","_","b","e","_","d","i","c","t">> :> Class("Dict") @@
    <<"i","s","_","d","i","c","t">> :> Class("Dict") @@
    <<"N","o","t","D","i","c","t">> :> Class("NotDict") @@
    <<"t","o","_","n","o","t","_","b","e","_","d","i","c","t">> :> Class("NotDict") @@
    <<"i","s","_","n","o","t","_","d","i","c","t">> :> Class("NotDict") @@
    <<"L","i","s","t">> :> Class("List") @@
    <<"t","o","_","b","e","_","l","i","s","t">> :> Class("List") @@
    <<"i","s","_","l","i","s","t">> :> Class("List") @@
    <<"N","o","t","L","i","s","t">> :> Class("NotList") @@
    <<"t","o","_","n","o","t","_","b","e","_","l","i","s","t">> :> Class("NotList") @@
    <<"i","s","_","n","o","t","_","l","i","s","t">> :> Class("NotList") @@
    <<"T","u","p","l","e">> :> Class("Tuple") @@
    <<"t","o","_","b","e","_","t","u","p","l","e">> :> Class("Tuple") @@
    <<"i","s","_","t","u","p","l","e">> :> Class("Tuple") @@
    <<"N","o","t","T","u","p","l","e">> :> Class("NotTuple") @@
    <<"t","o","_","n","o","t","_","b","e","_","t","u","p","l","e">> :> Class("NotTuple") @@
    <<"i","s","_","n","o","t","_","t","u","p","l","e">> :> Class("NotTuple") @@
    <<"D","a","t","e">> :> Class("Date") @@
    <<"t","o","_","b","e","_","d","a","t","e">> :> Class("Date") @@
    <<"i","s","_","d","a","t","e">> :> Class("Date") @@
    <<"N","o","t","D","a","t","e">> :> Class("NotDate") @@
    <<"t","o","_","n","o","t","_","b","e","_","d","a","t","e">> :> Class("NotDate") @@
    <<"i","s","_","n","o","t","_","d","a","t","e">> :> Class("NotDate") @@
    <<"D","a","t","e","S","t","r","i","n","g">> :> Class("DateString") @@
    <<"t","o","_","b","e","_","d","a","t","e","_","s","t","r","i","n","g">> :> Class("DateString") @@
    <<"i","s","_","d","a","t","e","_","s","t","r","i","n","g">> :> Class("DateString") @@
    <<"N","o","t","D","a","t","e","S","t","r","i","n","g">> :> Class("NotDateString") @@
    <<"t","o","_","n","o","t","_","b","e","_","d","a","t","e","_","s","t","r","i","n","g">> :> Class("NotDateString") @@
    <<"i","s","_","n","o","t","_","d","a","t","e","_","s","t","r","i","n","g">> :> Class("NotDateString") @@
    <<"I","n","t">> :> Class("Int") @@
    <<"t","o","_","b","e","_","i","n","t">> :> Class("Int") @@
    <<"i","s","_","i","n","t">> :> Class("Int") @@
    <<"N","o","t","I","n","t">> :> Class("NotInt") @@
    <<"t","o","_","n","o","t","_","b","e","_","i","n","t">> :> Class("NotInt") @@
    <<"i","s","_","n","o","t","_","i","n","t">> :> Class("NotInt") @@
    <<"F","l","o","a","t">> :> Class("Float") @@
    <<"t","o","_","b","e","_","f","l","o","a","t">> :> Class("Float") @@
    <<"i","s","_","f","l","o","a","t">> :> Class("Float") @@
    <<"N","o","t","F","l","o","a","t">> :> Class("NotFloat") @@
    <<"t","o","_","n","o","t","_","b","e","_","f","l","o","a","t">> :> Class("NotFloat") @@
    <<"i","s","_","n","o","t","_","f","l","o","a","t">> :> Class("NotFloat") @@
    <<"N","u","m","b","e","r">> :> Class("Number") @@
    <<"t","o","_","b","e","_","n","u","m","b","e","r">> :> Class("Number") @@
    <<"i","s","_","n","u","m","b","e","r">> :> Class("Number") @@
    <<"N","o","t","N","u","m","b","e","r">> :> Class("NotNumber") @@
    <<"t","o","_","n","o","t","_","b","e","_","n","u","m","b","e","r">> :> Class("NotNumber") @@
    <<"i","s","_","n","o","t","_","n","u","m","b","e","r">> :> Class("NotNumber")

ClassBases ==
    "Assertion" :> <<"object">> @@
    "Comparator" :> <<"Assertion">> @@
    "Negate" :> <<"object">> @@
    "expect" :> <<"object">> @@
    "Truthy" :> <<"Assertion">> @@
    "Falsy" :> <<"Assertion">> @@
    "Not" :> <<"Comparator">> @@
    "Predicate" :> <<"Comparator">> @@
    "All" :> <<"Comparator">> @@
    "NotAll" :> <<"Negate", "All">> @@
    "Any" :> <<"Comparator">> @@
    "NotAny" :> <<"Negate", "Any">> @@
    "Equal" :> <<"Comparator">> @@
    "NotEqual" :> <<"Negate", "Equal">> @@
    "Match" :> <<"Comparator">> @@
    "NotMatch" :> <<"Negate", "Match">> @@
    "Is" :> <<"Comparator">> @@
    "IsNot" :> <<"Negate", "Is">> @@
    "IsTrue" :> <<"Assertion">> @@
    "IsNotTrue" :> <<"Negate", "IsTrue">> @@
    "IsFalse" :> <<"Assertion">> @@
    "IsNotFalse" :> <<"Negate", "IsFalse">> @@
    "IsNone" :> <<"Assertion">> @@
    "IsNotNone" :> <<"Negate", "IsNone">> @@
    "Greater" :> <<"Comparator">> @@
    "GreaterEqual" :> <<"Comparator">> @@
    "Less" :> <<"Comparator">> @@
    "LessEqual" :> <<"Comparator">> @@
    "Between" :> <<"Assertion">> @@
    "NotBetween" :> <<"Negate", "Between">> @@
    "Positive" :> <<"Assertion">> @@
    "Negative" :> <<"Assertion">> @@
    "Even" :> <<"Assertion">> @@
    "Odd" :> <<"Assertion">> @@
    "Monotone" :> <<"Comparator">> @@
    "Increasing" :> <<"Assertion">> @@
    "StrictlyIncreasing" :> <<"Assertion">> @@
    "Decreasing" :> <<"Assertion">> @@
    "StrictlyDecreasing" :> <<"Assertion">> @@
    "In" :> <<"Comparator">> @@
    "NotIn" :> <<"Negate", "In">> @@
    "Contains" :> <<"Comparator">> @@
    "NotContains" :> <<"Negate", "Contains">> @@
    "ContainsOnly" :> <<"Comparator">> @@
    "NotContainsOnly" :> <<"Negate", "ContainsOnly">> @@
    "Subset" :> <<"Comparator">> @@
    "NotSubset" :> <<"Negate", "Subset">> @@
    "Superset" :> <<"Comparator">> @@
    "NotSuperset" :> <<"Negate", "Superset">> @@
    "Unique" :> <<"Assertion">> @@
    "NotUnique" :> <<"Negate", "Unique">> @@
    "Length" :> <<"Between">> @@
    "NotLength" :> <<"Negate", "Length">> @@
    "Type" :> <<"Comparator">> @@
    "NotType" :> <<"Negate", "Type">> @@
    "Boolean" :> <<"Assertion">> @@
    "NotBoolean" :> <<"Negate", "Boolean">> @@
    "String" :> <<"Assertion">> @@
    "NotString" :> <<"Negate", "String">> @@
    "Dict" :> <<"Assertion">> @@
    "NotDict" :> <<"Negate", "Dict">> @@
    "List" :> <<"Assertion">> @@
    "NotList" :> <<"Negate", "List">> @@
    "Tuple" :> <<"Assertion">> @@
    "NotTuple" :> <<"Negate", "Tuple">> @@
    "Date" :> <<"Assertion">> @@
    "NotDate" :> <<"Negate", "Date">> @@
    "DateString" :> <<"Comparator">> @@
    "NotDateString" :> <<"Negate", "DateString">> @@
    "Int" :> <<"Assertion">> @@
    "NotInt" :> <<"Negate", "Int">> @@
    "Float" :> <<"Assertion">> @@
    "NotFloat" :> <<"Negate", "Float">> @@
    "Number" :> <<"Assertion">> @@
    "NotNumber" :> <<"Negate", "Number">>

\* The namespace of the verify package: the public names of its modules.
VerifyNamespace ==
    BaseNames @@ RunnersNames @@ LogicNames @@ EqualityNames @@ NumbersNames @@
    ContainersNames @@ TypesNames

\* The capitalised names of __all__ of verify/logic.py.
LogicAll ==
    {<<"T","r","u","t","h","y">>, <<"F","a","l","s","y">>, <<"N","o","t">>,
     <<"P","r","e","d","i","c","a","t","e">>, <<"A","l","l">>, <<"N","o","t","A","l","l">>,
     <<"A","n","y">>, <<"N","o","t","A","n","y">>}

\* The names listed under Aliases in the docstrings of verify/logic.py.
LogicAliases ==
    {[alias |-> <<"t","o","_","b","e","_","t","r","u","t","h","y">>, cls |-> "Truthy"],
     [alias |-> <<"i","s","_","t","r","u","t","h","y">>, cls |-> "Truthy"],
     [alias |-> <<"t","o","_","b","e","_","f","a","l","s","y">>, cls |-> "Falsy"],
     [alias |-> <<"i","s","_","f","a","l","s","y">>, cls |-> "Falsy"],
     [alias |-> <<"n","o","t","_">>, cls |-> "Not"],
     [alias |-> <<"d","o","e","s","_","n","o","t">>, cls |-> "Not"],
     [alias |-> <<"t","o","_","f","a","i","l">>, cls |-> "Not"],
     [alias |-> <<"f","a","i","l","s">>, cls |-> "Not"],
     [alias |-> <<"d","o","e","s">>, cls |-> "Predicate"],
     [alias |-> <<"t","o","_","p","a","s","s">>, cls |-> "Predicate"],
     [alias |-> <<"p","a","s","s","e","s">>, cls |-> "Predicate"],
     [alias |-> <<"a","l","l","_">>, cls |-> "All"],
     [alias |-> <<"d","o","e","s","_","a","l","l">>, cls |-> "All"],
     [alias |-> <<"p","a","s","s","e","s","_","a","l","l">>, cls |-> "All"],
     [alias |-> <<"t","o","_","b","e","_","n","o","t","_","a","l","l">>, cls |-> "NotAll"],
     [alias |-> <<"d","o","e","s","_","n","o","t","_","a","l","l">>, cls |-> "NotAll"],
     [alias |-> <<"f","a","i","l","s","_","a","l","l">>, cls |-> "NotAll"],
     [alias |-> <<"a","n","y","_">>, cls |-> "Any"],
     [alias |-> <<"d","o","e","s","_","a","n","y">>, cls |-> "Any"],
     [alias |-> <<"p","a","s","s","e","s","_","a","n","y">>, cls |-> "Any"],
     [alias |-> <<"n","o","t","_","a","n","y">>, cls |-> "NotAny"],
     [alias |-> <<"d","o","e","s","_","n","o","t","_","a","n","y">>, cls |-> "NotAny"],
     [alias |-> <<"f","a","i","l","s","_","a","n","y">>, cls |-> "NotAny"]}

\* The capitalised names of __all__ of verify/equality.py.
EqualityAll ==
    {<<"E","q","u","a","l">>, <<"N","o","t","E","q","u","a","l">>, <<"M","a","t","c","h">>,
     <<"N","o","t","M","a","t","c","h">>, <<"I","s">>, <<"I","s","N","o","t">>,
     <<"I","s","T","r","u","e">>, <<"I","s","N","o","t","T","r","u","e">>,
     <<"I","s","F","a","l","s","e">>, <<"I","s","N","o","t","F","a","l","s","e">>,
     <<"I","s","N","o","t","N","o","n","e">>, <<"I","s","N","o","n","e">>}

\* The names listed under Aliases in the docstrings of verify/equality.py.
EqualityAliases ==
    {[alias |-> <<"t","o","_","b","e","_","e","q","u","a","l">>, cls |-> "Equal"],
     [alias |-> <<"i","s","_","e","q","u","a","l">>, cls |-> "Equal"],
     [alias |-> <<"t","o","_","n","o","t","_","b","e","_","e","q","u","a","l">>, cls |-> "NotEqual"],
     [alias |-> <<"i","s","_","n","o","t","_","e","q","u","a","l">>, cls |-> "NotEqual"],
     [alias |-> <<"t","o","_","m","a","t","c","h">>, cls |-> "Match"],
     [alias |-> <<"i","s","_","m","a","t","c","h">>, cls |-> "Match"],
     [alias |-> <<"m","a","t","c","h","e","s">>, cls |-> "Match"],
     [alias |-> <<"t","o","_","n","o","t","_","b","e","_","m","a","t","c","h">>, cls |-> "NotMatch"],
     [alias |-> <<"i","s","_","n","o","t","_","m","a","t","c","h">>, cls |-> "NotMatch"],
     [alias |-> <<"n","o","t","_","m","a","t","c","h","e","s">>, cls |-> "NotMatch"],
     [alias |-> <<"t","o","_","b","e">>, cls |-> "Is"], [alias |-> <<"i","s","_">>, cls |-> "Is"],
     [alias |-> <<"t","o","_","n","o","t","_","b","e">>, cls |-> "IsNot"],
     [alias |-> <<"i","s","_","n","o","t">>, cls |-> "IsNot"],
     [alias |-> <<"t","o","_","b","e","_","t","r","u","e">>, cls |-> "IsTrue"],
     [alias |-> <<"i","s","_","t","r","u","e">>, cls |-> "IsTrue"],
     [alias |-> <<"t","o","_","n","o","t","_","b","e","_","t","r","u","e">>, cls |-> "IsNotTrue"],
     [alias |-> <<"i","s","_","n","o","t","_","t","r","u","e">>, cls |-> "IsNotTrue"],
     [alias |-> <<"t","o","_","b","e","_","f","a","l","s","e">>, cls |-> "IsFalse"],
     [alias |-> <<"i","s","_","f","a","l","s","e">>, cls |-> "IsFalse"],
     [alias |-> <<"t","o","_","n","o","t","_","b","e","_","f","a","l","s","e">>, cls |-> "IsNotFalse"],
     [alias |-> <<"i","s","_","n","o","t","_","f","a","l","s","e">>, cls |-> "IsNotFalse"],
     [alias |-> <<"t","o","_","b","e","_","n","o","n","e">>, cls |-> "IsNone"],
     [alias |-> <<"i","s","_","n","o","n","e">>, cls |-> "IsNone"],
     [alias |-> <<"t","o","_","b","e","_","n","o","t","_","n","o","n","e">>, cls |-> "IsNotNone"],
     [alias |-> <<"i","s","_","n","o","t","_","n","o","n","e">>, cls |-> "IsNotNone"]}

\* The capitalised names of __all__ of verify/numbers.py.
NumbersAll ==
    {<<"G","r","e","a","t","e","r">>, <<"G","r","e","a","t","e","r","T","h","a","n">>,
     <<"G","r","e","a","t","e","r","E","q","u","a","l">>,
     <<"G","r","e","a","t","e","r","O","r","E","q","u","a","l">>, <<"L","e","s","s">>,
     <<"L","e","s","s","T","h","a","n">>, <<"L","e","s","s","E","q","u","a","l">>,
     <<"L","e","s","s","O","r","E","q","u","a","l">>, <<"B","e","t","w","e","e","n">>,
     <<"N","o","t","B","e","t","w","e","e","n">>, <<"P","o","s","i","t","i","v","e">>,
     <<"N","e","g","a","t","i","v","e">>, <<"E","v","e","n">>, <<"O","d","d">>,
     <<"M","o","n","o","t","o","n","e">>, <<"I","n","c","r","e","a","s","i","n","g">>,
     <<"S","t","r","i","c","t","l","y","I","n","c","r","e","a","s","i","n","g">>,
     <<"D","e","c","r","e","a","s","i","n","g">>,
     <<"S","t","r","i","c","t","l","y","D","e","c","r","e","a","s","i","n","g">>}

\* The names listed under Aliases in the docstrings of verify/numbers.py.
NumbersAliases ==
    {[alias |-> <<"G","r","e","a","t","e","r","T","h","a","n">>, cls |-> "Greater"],
     [alias |-> <<"t","o","_","b","e","_","g","r","e","a","t","e","r">>, cls |-> "Greater"],
     [alias |-> <<"t","o","_","b","e","_","g","r","e","a","t","e","r","_","t","h","a","n">>, cls |-> "Greater"],
     [alias |-> <<"i","s","_","g","r","e","a","t","e","r">>, cls |-> "Greater"],
     [alias |-> <<"i","s","_","g","r","e","a","t","e","r","_","t","h","a","n">>, cls |-> "Greater"],
     [alias |-> <<"G","r","e","a","t","e","r","T","h","a","n","E","q","u","a","l">>, cls |-> "GreaterEqual"],
     [alias |-> <<"t","o","_","b","e","_","g","r","e","a","t","e","r","_","e","q","u","a","l">>, cls |-> "GreaterEqual"],
     [alias |-> <<"t","o","_","b","e","_","g","r","e","a","t","e","r","_","o","r","_","e","q","u","a","l">>, cls |-> "GreaterEqual"],
     [alias |-> <<"i","s","_","g","r","e","a","t","e","r","_","e","q","u","a","l">>, cls |-> "GreaterEqual"],
     [alias |-> <<"i","s","_","g","r","e","a","t","e","r","_","o","r","_","e","q","u","a","l">>, cls |-> "GreaterEqual"],
     [alias |-> <<"L","e","s","s","T","h","a","n">>, cls |-> "Less"],
     [alias |-> <<"t","o","_","b","e","_","l","e","s","s">>, cls |-> "Less"],
     [alias |-> <<"t","o","_","b","e","_","l","e","s","s","_","t","h","a","n">>, cls |-> "Less"],
     [alias |-> <<"i","s","_","l","e","s","s">>, cls |-> "Less"],
     [alias |-> <<"i","s","_","l","e","s","s","_","t","h","a","n">>, cls |-> "Less"],
     [alias |-> <<"L","e","s","s","T","h","a","n","E","q","u","a","l">>, cls |-> "LessEqual"],
     [alias |-> <<"t","o","_","b","e","_","l","e","s","s","_","e","q","u","a","l">>, cls |-> "LessEqual"],
     [alias |-> <<"t","o","_","b","e","_","l","e","s","s","_","o","r","_","e","q","u","a","l">>, cls |-> "LessEqual"],
     [alias |-> <<"i","s","_","l","e","s","s","_","e","q","u","a","l">>, cls |-> "LessEqual"],
     [alias |-> <<"i","s","_","l","e","s","s","_","o","r","_","e","q","u","a","l">>, cls |-> "LessEqual"],
     [alias |-> <<"t","o","_","b","e","_","b","e","t","w","e","e","n">>, cls |-> "Between"],
     [alias |-> <<"i","s","_","b","e","t","w","e","e","n">>, cls |-> "Between"],
     [alias |-> <<"t","o","_","n","o","t","_","b","e","_","b","e","t","w","e","e","n">>, cls |-> "NotBetween"],
     [alias |-> <<"i","s","_","n","o","t","_","b","e","t","w","e","e","n">>, cls |-> "NotBetween"],
     [alias |-> <<"t","o","_","b","e","_","p","o","s","i","t","i","v","e">>, cls |-> "Positive"],
     [alias |-> <<"i","s","_","p","o","s","i","t","i","v","e">>, cls |-> "Positive"],
     [alias |-> <<"t","o","_","b","e","_","n","e","g","a","t","i","v","e">>, cls |-> "Negative"],
     [alias |-> <<"i","s","_","n","e","g","a","t","i","v","e">>, cls |-> "Negative"],
     [alias |-> <<"t","o","_","b","e","_","e","v","e","n">>, cls |-> "Even"],
     [alias |-> <<"i","s","_","e","v","e","n">>, cls |-> "Even"],
     [alias |-> <<"t","o","_","b","e","_","o","d","d">>, cls |-> "Odd"],
     [alias |-> <<"i","s","_","o","d","d">>, cls |-> "Odd"],
     [alias |-> <<"t","o","_","b","e","_","m","o","n","o","t","o","n","e">>, cls |-> "Monotone"],
     [alias |-> <<"i","s","_","m","o","n","o","t","o","n","e">>, cls |-> "Monotone"],
     [alias |-> <<"t","o","_","b","e","_","i","n","c","r","e","a","s","i","n","g">>, cls |-> "Increasing"],
     [alias |-> <<"i","s","_","i","n","c","r","e","a","s","i","n","g">>, cls |-> "Increasing"],
     [alias |-> <<"t","o","_","b","e","_","s","t","r","i","c","t","l","y","_","i","n","c","r","e","a","s","i","n","g">>, cls |-> "StrictlyIncreasing"],
     [alias |-> <<"i","s","_","s","t","r","i","c","t","l","y","_","i","n","c","r","e","a","s","i","n","g">>, cls |-> "StrictlyIncreasing"],
     [alias |-> <<"t","o","_","b","e","_","d","e","c","r","e","a","s","i","n","g">>, cls |-> "Decreasing"],
     [alias |-> <<"i","s","_","d","e","c","r","e","a","s","i","n","g">>, cls |-> "Decreasing"],
     [alias |-> <<"t","o","_","b","e","_","s","t","r","i","c","t","l","y","_","d","e","c","r","e","a","s","i","n","g">>, cls |-> "StrictlyDecreasing"],
     [alias |-> <<"i","s","_","s","t","r","i","c","t","l","y","_","d","e","c","r","e","a","s","i","n","g">>, cls |-> "StrictlyDecreasing"]}

\* The capitalised names of __all__ of verify/containers.py.
ContainersAll ==
    {<<"I","n">>, <<"N","o","t","I","n">>, <<"C","o","n","t","a","i","n","s">>,
     <<"N","o","t","C","o","n","t","a","i","n","s">>,
     <<"C","o","n","t","a","i","n","s","O","n","l","y">>,
     <<"N","o","t","C","o","n","t","a","i","n","s","O","n","l","y">>, <<"S","u","b","s","e","t">>,
     <<"N","o","t","S","u","b","s","e","t">>, <<"S","u","p","e","r","s","e","t">>,
     <<"N","o","t","S","u","p","e","r","s","e","t">>, <<"U","n","i","q","u","e">>,
     <<"N","o","t","U","n","i","q","u","e">>, <<"L","e","n","g","t","h">>,
     <<"N","o","t","L","e","n","g","t","h">>}

\* The names listed under Aliases in the docstrings of verify/containers.py.
ContainersAliases ==
    {[alias |-> <<"t","o","_","b","e","_","i","n">>, cls |-> "In"],
     [alias |-> <<"i","s","_","i","n">>, cls |-> "In"],
     [alias |-> <<"t","o","_","n","o","t","_","b","e","_","i","n">>, cls |-> "NotIn"],
     [alias |-> <<"i","s","_","n","o","t","_","i","n">>, cls |-> "NotIn"],
     [alias |-> <<"t","o","_","c","o","n","t","a","i","n">>, cls |-> "Contains"],
     [alias |-> <<"c","o","n","t","a","i","n","s">>, cls |-> "Contains"],
     [alias |-> <<"t","o","_","n","o","t","_","c","o","n","t","a","i","n">>, cls |-> "NotContains"],
     [alias |-> <<"d","o","e","s","_","n","o","t","_","c","o","n","t","a","i","n">>, cls |-> "NotContains"],
     [alias |-> <<"t","o","_","c","o","n","t","a","i","n","_","o","n","l","y">>, cls |-> "ContainsOnly"],
     [alias |-> <<"c","o","n","t","a","i","n","s","_","o","n","l","y">>, cls |-> "ContainsOnly"],
     [alias |-> <<"t","o","_","n","o","t","_","c","o","n","t","a","i","n","_","o","n","l","y">>, cls |-> "NotContainsOnly"],
     [alias |-> <<"d","o","e","s","_","n","o","t","_","c","o","n","t","a","i","n","_","o","n","l","y">>, cls |-> "NotContainsOnly"],
     [alias |-> <<"t","o","_","b","e","_","s","u","b","s","e","t">>, cls |-> "Subset"],
     [alias |-> <<"i","s","_","s","u","b","s","e","t">>, cls |-> "Subset"],
     [alias |-> <<"t","o","_","n","o","t","_","b","e","_","s","u","b","s","e","t">>, cls |-> "NotSubset"],
     [alias |-> <<"i","s","_","n","o","t","_","s","u","b","s","e","t">>, cls |-> "NotSubset"],
     [alias |-> <<"t","o","_","b","e","_","s","u","p","e","r","s","e","t">>, cls |-> "Superset"],
     [alias |-> <<"i","s","_","s","u","p","e","r","s","e","t">>, cls |-> "Superset"],
     [alias |-> <<"t","o","_","n","o","t","_","b","e","_","s","u","p","e","r","s","e","t">>, cls |-> "NotSuperset"],
     [alias |-> <<"i","s","_","n","o","t","_","s","u","p","e","r","s","e","t">>, cls |-> "NotSuperset"],
     [alias |-> <<"t","o","_","b","e","_","u","n","i","q","u","e">>, cls |-> "Unique"],
     [alias |-> <<"i","s","_","u","n","i","q","u","e">>, cls |-> "Unique"],
     [alias |-> <<"t","o","_","n","o","t","_","b","e","_","u","n","i","q","u","e">>, cls |-> "NotUnique"],
     [alias |-> <<"i","s","_","n","o","t","_","u","n","i","q","u","e">>, cls |-> "NotUnique"],
     [alias |-> <<"t","o","_","h","a","v","e","_","l","e","n","g","t","h">>, cls |-> "Length"],
     [alias |-> <<"h","a","s","_","l","e","n","g","t","h">>, cls |-> "Length"],
     [alias |-> <<"t","o","_","n","o","t","_","h","a","v","e","_","l","e","n","g","t","h">>, cls |-> "NotLength"],
     [alias |-> <<"d","o","e","s","_","n","o","t","_","h","a","v","e","_","l","e","n","g","t","h">>, cls |-> "NotLength"]}

\* The capitalised names of __all__ of verify/types.py.
TypesAll ==
    {<<"T","y","p","e">>, <<"N","o","t","T","y","p","e">>, <<"B","o","o","l","e","a","n">>,
     <<"N","o","t","B","o","o","l","e","a","n">>, <<"S","t","r","i","n","g">>,
     <<"N","o","t","S","t","r","i","n","g">>, <<"D","i","c","t">>,
     <<"N","o","t","D","i","c","t">>, <<"L","i","s","t">>, <<"N","o","t","L","i","s","t">>,
     <<"T","u","p","l","e">>, <<"N","o","t","T","u","p","l","e">>, <<"D","a","t","e">>,
     <<"N","o","t","D","a","t","e">>, <<"D","a","t","e","S","t","r","i","n","g">>,
     <<"N","o","t","D","a","t","e","S","t","r","i","n","g">>, <<"I","n","t">>,
     <<"N","o","t","I","n","t">>, <<"N","o","t","F","l","o","a","t">>, <<"F","l","o","a","t">>,
     <<"N","u","m","b","e","r">>, <<"N","o","t","N","u","m","b","e","r">>}

\* The names listed under Aliases in the docstrings of verify/types.py.
TypesAliases ==
    {[alias |-> <<"t","o","_","b","e","_","t","y","p","e">>, cls |-> "Type"],
     [alias |-> <<"i","s","_","t","y","p","e">>, cls |-> "Type"],
     [alias |-> <<"t","o","_","b","e","_","n","o","t","_","t","y","p","e">>, cls |-> "NotType"],
     [alias |-> <<"i","s","_","n","o","t","_","t","y","p","e">>, cls |-> "NotType"],
     [alias |-> <<"t","o","_","b","e","_","b","o","o","l","e","a","n">>, cls |-> "Boolean"],
     [alias |-> <<"i","s","_","b","o","o","l","e","a","n">>, cls |-> "Boolean"],
     [alias |-> <<"t","o","_","b","e","_","n","o","t","_","b","o","o","l","e","a","n">>, cls |-> "NotBoolean"],
     [alias |-> <<"i","s","_","n","o","t","_","b","o","o","l","e","a","n">>, cls |-> "NotBoolean"],
     [alias |-> <<"t","o","_","b","e","_","s","t","r","i","n","g">>, cls |-> "String"],
     [alias |-> <<"i","s","_","s","t","r","i","n","g">>, cls |-> "String"],
     [alias |-> <<"t","o","_","b","e","_","n","o","t","_","s","t","r","i","n","g">>, cls |-> "NotString"],
     [alias |-> <<"i","s","_","n","o","t","_","s","t","r","i","n","g">>, cls |-> "NotString"],
     [alias |-> <<"t","o","_","b","e","_","d","i","c","t">>, cls |-> "Dict"],
     [alias |-> <<"i","s","_","d","i","c","t">>, cls |-> "Dict"],
     [alias |-> <<"t","o","_","b","e","_","n","o","t","_","d","i","c","t">>, cls |-> "NotDict"],
     [alias |-> <<"i","s","_","d","i","c","t">>, cls |-> "NotDict"],
     [alias |-> <<"t","o","_","b","e","_","l","i","s","t">>, cls |-> "List"],
     [alias |-> <<"i","s","_","l","i","s","t">>, cls |-> "List"],
     [alias |-> <<"t","o","_","b","e","_","n","o","t","_","l","i","s","t">>, cls |-> "NotList"],
     [alias |-> <<"i","s","_","n","o","t","_","l","i","s","t">>, cls |-> "NotList"],
     [alias |-> <<"t","o","_","b","e","_","t","u","p","l","e">>, cls |-> "Tuple"],
     [alias |-> <<"i","s","_","t","u","p","l","e">>, cls |-> "Tuple"],
     [alias |-> <<"t","o","_","b","e","_","n","o","t","_","t","u","p","l","e">>, cls |-> "NotTuple"],
     [alias |-> <<"i","s","_","n","o","t","_","t","u","p","l","e">>, cls |-> "NotTuple"],
     [alias |-> <<"t","o","_","b","e","_","d","a","t","e">>, cls |-> "Date"],
     [alias |-> <<"i","s","_","d","a","t","e">>, cls |-> "Date"],
     [alias |-> <<"t","o","_","b","e","_","n","o","t","_","d","a","t","e">>, cls |-> "NotDate"],
     [alias |-> <<"i","s","_","n","o","t","_","d","a","t","e">>, cls |-> "NotDate"],
     [alias |-> <<"t","o","_","b","e","_","d","a","t","e","_","s","t","r","i","n","g">>, cls |-> "DateString"],
     [alias |-> <<"i","s","_","d","a","t","e","_","s","t","r","i","n","g">>, cls |-> "DateString"],
     [alias |-> <<"t","o","_","b","e","_","n","o","t","_","d","a","t","e","_","s","t","r","i","n","g">>, cls |-> "NotDateString"],
     [alias |-> <<"i","s","_","n","o","t","_","d","a","t","e","_","s","t","r","i","n","g">>, cls |-> "NotDateString"],
     [alias |-> <<"t","o","_","b","e","_","i","n","t">>, cls |-> "Int"],
     [alias |-> <<"i","s","_","i","n","t">>, cls |-> "Int"],
     [alias |-> <<"t","o","_","b","e","_","n","o","t","_","i","n","t">>, cls |-> "NotInt"],
     [alias |-> <<"i","s","_","n","o","t","_","i","n","t">>, cls |-> "NotInt"],
     [alias |-> <<"t","o","_","b","e","_","f","l","o","a","t">>, cls |-> "Float"],
     [alias |-> <<"i","s","_","f","l","o","a","t">>, cls |-> "Float"],
     [alias |-> <<"t","o","_","b","e","_","n","o","t","_","f","l","o","a","t">>, cls |-> "NotFloat"],
     [alias |-> <<"i","s","_","n","o","t","_","f","l","o","a","t">>, cls |-> "NotFloat"],
     [alias |-> <<"t","o","_","b","e","_","n","u","m","b","e","r">>, cls |-> "Number"],
     [alias |-> <<"i","s","_","n","u","m","b","e","r">>, cls |-> "Number"],
     [alias |-> <<"t","o","_","b","e","_","n","o","t","_","n","u","m","b","e","r">>, cls |-> "NotNumber"],
     [alias |-> <<"i","s","_","n","o","t","_","n","u","m","b","e","r">>, cls |-> "NotNumber"]}

ExportedChecks == LogicAll \cup EqualityAll \cup NumbersAll \cup ContainersAll \cup TypesAll

DocumentedAliases ==
    LogicAliases \cup EqualityAliases \cup NumbersAliases \cup ContainersAliases \cup
        TypesAliases

(***************************************************************************)
(* Classes: bases, method resolution order, is_assertion.                  *)
(***************************************************************************)
RECURSIVE MRO(_)
\* The method resolution order of a class with at most one mixin before its parent.
MRO(cls) ==
    IF cls = "object"
    THEN <<"object">>
    ELSE LET b == ClassBases[cls]
         IN  <<cls>> \o (IF Len(b) = 2 THEN <<b[1]>> \o MRO(b[2]) ELSE MRO(b[1]))

IsSubclass(cls, base) == \E i \in 1..Len(MRO(cls)) : MRO(cls)[i] = base

\* isinstance(obj, Assertion) or issubclass(obj, Assertion); a TypeError means False.
IsAssertion_NoCheck(o) == TRUE

IsAssertion(o) ==
    CASE o.t = "instance" -> IsSubclass(o.cls, "Assertion")
      [] o.t = "class" -> IsSubclass(o.cls, "Assertion")
      [] OTHER -> FALSE

\* The classes that set their own op attribute.
OwnsOp ==
    {"Truthy", "Falsy", "Equal", "Is", "IsTrue", "IsFalse", "IsNone", "Greater",
     "GreaterEqual", "Less", "LessEqual", "Between", "Length", "In", "Contains",
     "ContainsOnly", "Unique", "Match", "DateString", "All", "Any"}

\* The class whose op attribute an instance of cls finds.
OpOwner(cls) ==
    LET m == MRO(cls)
        i == CHOOSE k \in 1..Len(m) :
                 /\ m[k] \in OwnsOp \cup {"object"}
                 /\ \A j \in 1..(k - 1) : m[j] \notin OwnsOp \cup {"object"}
    IN  m[i]

\* try: ... except (TypeError, ValueError): return False
Guarded_NoCatch(r) == r

Guarded(r) == IF r.out \in {"TypeError", "ValueError"} THEN Ret(PyFalse) ELSE r

\* No item of the sequence equals an item before it.
NoneSeen(items) ==
    \A i \in 1..Len(items) : \A j \in 1..(i - 1) : ~PyEq(items[i], items[j])

\* Unique.op over the keys of a dict.
UniqueOp_Keys(value) ==
    IF ~IsIterable(value) THEN Raise("TypeError", <<>>) ELSE Ret(PyBool(NoneSeen(Items(value))))

\* Unique.op: a dict is replaced by its values; no item equals an item seen
\* before it; iterating a non-iterable raises.
UniqueOp(value) ==
    IF value.t = "dict" THEN Ret(PyBool(NoneSeen(value.vals)))
    ELSE IF ~IsIterable(value) THEN Raise("TypeError", <<>>)
    ELSE Ret(PyBool(NoneSeen(Items(value))))

\* all(val in comparable for val in value): the first item that is not in
\* comparable, or for which the test raises, decides.
AllIn(value, comparable) ==
    IF ~IsIterable(value) THEN Raise("TypeError", <<>>)
    ELSE IF \A i \in 1..PyLen(value) : PyIn(Items(value)[i], comparable) = Ret(PyTrue)
    THEN Ret(PyTrue)
    ELSE PyIn(Items(value)[CHOOSE i \in 1..PyLen(value) :
                               /\ PyIn(Items(value)[i], comparable) # Ret(PyTrue)
                               /\ \A j \in 1..(i - 1) :
                                      PyIn(Items(value)[j], comparable) = Ret(PyTrue)],
              comparable)

\* Between.op: value >= min unless min is None, value <= max unless max is None.
BetweenOp_ZeroAbsent(value, min, max) ==
    IF (Truth(min) /\ ~Orderable(value, min)) \/ (Truth(max) /\ ~Orderable(value, max))
    THEN Raise("TypeError", <<>>)
    ELSE Ret(PyBool(/\ (~Truth(min) \/ value.v >= min.v)
                    /\ (~Truth(max) \/ value.v <= max.v)))

BetweenOp(value, min, max) ==
    IF (min # PyNone /\ ~Orderable(value, min)) \/ (max # PyNone /\ ~Orderable(value, max))
    THEN Raise("TypeError", <<>>)
    ELSE Ret(PyBool(/\ (min = PyNone \/ value.v >= min.v)
                    /\ (max = PyNone \/ value.v <= max.v)))

\* Length.op: Between.op on len(value); a TypeError means False.
LengthOp(value, min, max) ==
    Guarded(IF IsIterable(value)
            THEN BetweenOp(PyInt(PyLen(value)), min, max)
            ELSE Raise("TypeError", <<>>))

\* Match.op without the try.
MatchOp_NoCatch(value, comparable) ==
    IF comparable.t # "str" THEN Raise("AttributeError", <<>>)
    ELSE IF value.t = "str"
    THEN Ret(PyBool(/\ Len(value.chars) >= Len(comparable.chars)
                    /\ SubSeq(value.chars, 1, Len(comparable.chars)) = comparable.chars))
    ELSE Raise("TypeError", <<>>)

\* Match.op for a pattern of literal characters: the pattern is compiled when
\* it is a str and matched at the start of value; a value that is not a str
\* makes match raise TypeError, which means no match.  A comparable that is
\* not a str is used as the pattern object and has no match attribute.
MatchOp(value, comparable) ==
    IF comparable.t # "str" THEN Raise("AttributeError", <<>>)
    ELSE Guarded(IF value.t = "str"
                 THEN Ret(PyBool(/\ Len(value.chars) >= Len(comparable.chars)
                    /\ SubSeq(value.chars, 1, Len(comparable.chars)) = comparable.chars))
                 ELSE Raise("TypeError", <<>>))

\* datetime.datetime.strptime(value, format) for a format of literal
\* characters: TypeError unless both are str, ValueError unless value is the
\* format.
StrpTime(value, format) ==
    IF value.t # "str" \/ format.t # "str" THEN Raise("TypeError", <<>>)
    ELSE IF value.chars = format.chars THEN Ret(PyTrue)
    ELSE Raise("ValueError", <<>>)

\* The plain predicate functions handed to the library by its callers.
FunctionNames == {"is_boolean", "is_number", "is_none", "identity", "assert_truthy"}

FnApply(name, v) ==
    CASE name = "is_boolean" -> Ret(PyBool(v.t = "bool"))
      [] name = "is_number" -> Ret(PyBool(v.t = "int"))
      [] name = "is_none" -> Ret(PyBool(v = PyNone))
      [] name = "identity" -> Ret(v)
      [] name = "assert_truthy" ->
            IF Truth(v) THEN Ret(PyNone) ELSE Raise("AssertionError", <<>>)
      [] OTHER -> Raise("TypeError", <<>>)

\* The results so far with one more at their end, or the exception raised.
Collected(r, rest) ==
    IF r.out # "return" THEN r
    ELSE IF rest.out # "return" THEN rest
    ELSE Ret(PyList(<<r.val>> \o rest.val.items))

RECURSIVE JuxtaposeFrom(_, _, _)
\* pydash.juxtapose(*funcs)(value) from the i-th function on: the list of the
\* results of every function, called in order; what a function raises ends it.
JuxtaposeFrom(funcs, value, i) ==
    IF i > Len(funcs) THEN Ret(PyList(<<>>))
    ELSE IF funcs[i].t # "function" THEN Raise("TypeError", <<>>)
    ELSE Collected(FnApply(funcs[i].name, value), JuxtaposeFrom(funcs, value, i + 1))

Juxtapose(comparable, value) ==
    IF comparable.t # "list" THEN Raise("TypeError", <<>>)
    ELSE JuxtaposeFrom(comparable.items, value, 1)

\* any(results), given what juxtapose did.
AnyOf(r) ==
    IF r.out # "return" THEN r
    ELSE Ret(PyBool(\E i \in 1..Len(r.val.items) : Truth(r.val.items[i])))

\* Any.op: any(pydash.juxtapose(*comparable)(value))
AnyOp(value, comparable) == AnyOf(Juxtapose(comparable, value))

\* all(results), given what juxtapose did.
AllOf(r) ==
    IF r.out # "return" THEN r
    ELSE Ret(PyBool(\A i \in 1..Len(r.val.items) : Truth(r.val.items[i])))

\* An All.op that is content with one truthy result.
AllOp_AsAny(value, comparable) == AnyOp(value, comparable)

\* All.op: all(pydash.juxtapose(*comparable)(value))
AllOp(value, comparable) == AllOf(Juxtapose(comparable, value))

\* op(value) of the one-operand checks.
Op1(owner, v) ==
    CASE owner = "Truthy" -> Ret(PyBool(Truth(v)))
      [] owner = "Unique" -> UniqueOp(v)
      [] owner = "Falsy" -> Ret(PyBool(~Truth(v)))
      [] owner = "IsTrue" -> Ret(PyBool(PyIs(PyTrue, v)))
      [] owner = "IsFalse" -> Ret(PyBool(PyIs(PyFalse, v)))
      [] owner = "IsNone" -> Ret(PyBool(v = PyNone))
      [] OTHER -> Raise("TypeError", <<>>)

\* op(value, comparable) of the two-operand checks.
Op2(owner, v, c) ==
    CASE owner = "Equal" -> Ret(PyBool(PyEq(v, c)))
      [] owner = "In" -> Guarded(PyIn(v, c))
      [] owner = "Contains" -> Guarded(PyIn(c, v))
      [] owner = "ContainsOnly" -> Guarded(AllIn(v, c))
      [] owner = "DateString" -> Guarded(StrpTime(v, c))
      [] owner = "All" -> AllOp(v, c)
      [] owner = "Any" -> AnyOp(v, c)
      [] owner = "Is" -> Ret(PyBool(PyIs(v, c)))
      [] owner \in {"Greater", "GreaterEqual", "Less", "LessEqual"} ->
            IF ~Orderable(v, c)
            THEN Raise("TypeError", <<>>)
            ELSE Ret(PyBool(CASE owner = "Greater" -> v.v > c.v
                              [] owner = "GreaterEqual" -> v.v >= c.v
                              [] owner = "Less" -> v.v < c.v
                              [] OTHER -> v.v <= c.v))
      [] OTHER -> Raise("TypeError", <<>>)

\* op(value, min, max) of the range checks.
Op3(owner, v, min, max) ==
    CASE owner = "Between" -> BetweenOp(v, min, max)
      [] owner = "Length" -> LengthOp(v, min, max)
      [] OTHER -> Raise("TypeError", <<>>)

(***************************************************************************)
(* Assertion, Comparator, Negate, Not, Predicate                           *)
(***************************************************************************)
EmptyDict == [k \in {} |-> PyNone]

Instance(cls, d) == [t |-> "instance", cls |-> cls, dict |-> d]

\* opts.pop(key, None)
OptOr(opts, key) == IF key \in DOMAIN opts THEN opts[key] ELSE PyNone

\* Between.set_options: min and max are taken from the options and stored.
BetweenSetOptions(self, opts) ==
    Instance(self.cls, [min |-> OptOr(opts, "min"), max |-> OptOr(opts, "max")])

\* Assertion.set_options: the base class stores nothing; Match stores flags,
\* 0 when the option is absent.
SetOptions(self, opts) ==
    CASE IsSubclass(self.cls, "Between") -> BetweenSetOptions(self, opts)
      [] IsSubclass(self.cls, "Match") ->
            Instance(self.cls,
                     [comparable |-> self.dict.comparable,
                      flags |-> IF "flags" \in DOMAIN opts THEN opts.flags ELSE PyInt(0)])
      [] OTHER -> self

\* Assertion.format_msg: msg when it is given and not empty, else the class's
\* reason, formatted with the subject as {0} and the instance's __dict__.
FormatMsg(self, value, opts) ==
    LET reason == IF opts.msg # <<>> /\ opts.msg[1] # <<>>
                  THEN opts.msg[1]
                  ELSE Reason(self.cls)
        kargs == self.dict
        known(p) == p.part # "field" \/ p.name = "0" \/ p.name \in DOMAIN kargs
    IN  IF \A i \in 1..Len(reason) : known(reason[i])
        THEN [ok |-> TRUE,
              text |-> [i \in 1..Len(reason) |->
                          IF reason[i].part = "field"
                          THEN Rep(IF reason[i].name = "0" THEN value
                                   ELSE kargs[reason[i].name])
                          ELSE reason[i]]]
        ELSE [ok |-> FALSE, text |-> <<>>]

\* Negate.compare without the negation.
NegateCompare_NoNegate(r) == r

\* Negate.compare, given what the parent's compare did.
NegateCompare(r) ==
    CASE r.out = "return" -> Ret(PyBool(~Truth(r.val)))
      [] r.out = "AssertionError" -> Ret(PyTrue)
      [] OTHER -> r

\* Not.compare, given what calling the comparable did.
NotCompare_NoCatch(r) ==
    IF r.out = "return" THEN Ret(PyBool(~Truth(r.val))) ELSE r

NotCompare(r) ==
    CASE r.out = "return" -> Ret(PyBool(~Truth(r.val)))
      [] r.out = "AssertionError" -> Ret(PyTrue)
      [] OTHER -> r

\* Predicate.compare, given what calling the comparable did.
PredicateCompare_NoneFails(r) ==
    IF r.out = "AssertionError" THEN Ret(PyFalse) ELSE r

PredicateCompare(r) ==
    LET result == IF r.out = "AssertionError" THEN Ret(PyFalse) ELSE r
    IN  IF result.out = "return" /\ result.val = PyNone THEN Ret(PyTrue) ELSE result

\* Comparator.__init__: which positional argument is the comparable and which
\* the subject.  Two arguments mean immediate evaluation and are swapped.
ComparatorArgs_NoSwap(comparable, value) ==
    [comparable |-> comparable, value |-> value]

ComparatorArgs(comparable, value) ==
    IF value # NotSet
    THEN [comparable |-> value, value |-> comparable]
    ELSE [comparable |-> comparable, value |-> value]

RECURSIVE Call(_, _, _)

RECURSIVE CompareFrom(_, _, _)
\* self.compare(value), resolved along the classes in chain.
CompareFrom(self, chain, value) ==
    CASE Head(chain) = "Negate" -> NegateCompare(CompareFrom(self, Tail(chain), value))
      [] Head(chain) = "Not" -> NotCompare(Call(self.dict.comparable, value, NoOpts))
      [] Head(chain) = "Predicate" ->
            PredicateCompare(Call(self.dict.comparable, value, NoOpts))
      [] Head(chain) = "Match" -> MatchOp(value, self.dict.comparable)
      [] Head(chain) = "Comparator" -> Op2(OpOwner(self.cls), value, self.dict.comparable)
      [] Head(chain) = "Between" ->
            Op3(OpOwner(self.cls), value, self.dict.min, self.dict.max)
      [] Head(chain) = "Assertion" -> Op1(OpOwner(self.cls), value)
      [] OTHER -> CompareFrom(self, Tail(chain), value)

\* The assert statement of Assertion.__call__ when compare returned a falsy value.
AssertFailed(m) ==
    IF m.ok THEN Raise("AssertionError", m.text) ELSE Raise("KeyError", <<>>)

\* A __call__ that hands back what compare returned.
CallResult_PassThrough(self, value, opts, r) == r

\* Assertion.__call__, given what compare did: True when it is truthy, else
\* AssertionError with the formatted message; what compare raises propagates.
CallResult(self, value, opts, r) ==
    IF r.out # "return" THEN r
    ELSE IF Truth(r.val) THEN Ret(PyTrue)
    ELSE AssertFailed(FormatMsg(self, value, opts))

InstanceCall(self, value, opts) ==
    CallResult(self, value, opts, CompareFrom(self, MRO(self.cls), value))

\* The constructor's result: the new instance unless the evaluation raised.
Constructed(self, r) == IF r.out = "return" THEN Ret(self) ELSE r

\* An __init__ that evaluates whatever value holds.
EvaluateIfGiven_Always(self, value, opts) ==
    Constructed(self, InstanceCall(self, value, opts))

\* An __init__ that tests the value for truth, not for being NotSet.
EvaluateIfGiven_IfTruthy(self, value, opts) ==
    IF ~Truth(value) THEN Ret(self)
    ELSE Constructed(self, InstanceCall(self, value, opts))

\* Assertion.__init__ after set_options: evaluate at once when a subject is given.
EvaluateIfGiven(self, value, opts) ==
    IF value = NotSet THEN Ret(self)
    ELSE Constructed(self, InstanceCall(self, value, opts))

AssertionInit(self, value, opts) == EvaluateIfGiven(SetOptions(self, opts), value, opts)

\* Comparator.__init__: the comparable is stored, then Assertion.__init__ runs.
ComparatorInit(cls, a, opts) ==
    AssertionInit(Instance(cls, [comparable |-> a.comparable]), a.value, opts)

\* cls(*args, **opts)
Construct(cls, args, opts) ==
    IF IsSubclass(cls, "Comparator")
    THEN IF Len(args) \notin {1, 2} THEN Raise("TypeError", <<>>)
         ELSE ComparatorInit(cls,
                             ComparatorArgs(args[1],
                                            IF Len(args) > 1 THEN args[2] ELSE NotSet),
                             opts)
    ELSE IF Len(args) > 1 THEN Raise("TypeError", <<>>)
    ELSE AssertionInit(Instance(cls, EmptyDict),
                       IF Len(args) > 0 THEN args[1] ELSE NotSet, opts)

\* The value parameter of Assertion.__init__ in cls(*args): the subject, or
\* NotSet when the call gives none.
InitValue(cls, args) ==
    IF IsSubclass(cls, "Comparator")
    THEN ComparatorArgs(args[1], IF Len(args) > 1 THEN args[2] ELSE NotSet).value
    ELSE IF Len(args) > 0 THEN args[1] ELSE NotSet

\* The subjects cls(*args) evaluates during construction: __init__ calls
\* self(value) once unless value is NotSet.
InitEvaluations(cls, args) ==
    IF IsSubclass(cls, "Comparator") /\ Len(args) \notin {1, 2} THEN <<>>
    ELSE IF ~IsSubclass(cls, "Comparator") /\ Len(args) > 1 THEN <<>>
    ELSE IF InitValue(cls, args) = NotSet THEN <<>>
    ELSE <<InitValue(cls, args)>>

\* f(value, **opts) for any callable f.
Call(f, value, opts) ==
    CASE f.t = "function" -> FnApply(f.name, value)
      [] f.t = "class" -> Construct(f.cls, <<value>>, opts)
      [] f.t = "instance" -> InstanceCall(f, value, opts)
      [] OTHER -> Raise("TypeError", <<>>)

(***************************************************************************)
(* Name resolution of verify/runners.py                                    *)
(***************************************************************************)
LowerLetters ==
    <<"a", "b", "c", "d", "e", "f", "g", "h", "i", "j", "k", "l", "m",
      "n", "o", "p", "q", "r", "s", "t", "u", "v", "w", "x", "y", "z">>

UpperLetters ==
    <<"A", "B", "C", "D", "E", "F", "G", "H", "I", "J", "K", "L", "M",
      "N", "O", "P", "Q", "R", "S", "T", "U", "V", "W", "X", "Y", "Z">>

Upper(c) ==
    IF \E i \in 1..26 : LowerLetters[i] = c
    THEN UpperLetters[CHOOSE i \in 1..26 : LowerLetters[i] = c]
    ELSE c

Lower(c) ==
    IF \E i \in 1..26 : UpperLetters[i] = c
    THEN LowerLetters[CHOOSE i \in 1..26 : UpperLetters[i] = c]
    ELSE c

\* str.capitalize: the first character upper-cased, the others lower-cased.
Capitalize(w) ==
    [i \in 1..Len(w) |-> IF i = 1 THEN Upper(w[i]) ELSE Lower(w[i])]

RECURSIVE SplitFrom(_, _, _)
\* name.split('_'): cur is the part being read from position i on.
SplitFrom(name, i, cur) ==
    IF i > Len(name) THEN <<cur>>
    ELSE IF name[i] = "_" THEN <<cur>> \o SplitFrom(name, i + 1, <<>>)
    ELSE SplitFrom(name, i + 1, Append(cur, name[i]))

Split(name) == SplitFrom(name, 1, <<>>)

RECURSIVE Join(_)
Join(parts) == IF parts = <<>> THEN <<>> ELSE Head(parts) \o Join(Tail(parts))

\* _class_format: every '_'-separated part capitalised, then all joined.
ClassFormat(name) ==
    LET parts == Split(name)
    IN  Join([i \in 1..Len(parts) |-> Capitalize(parts[i])])

\* re.match(prefix, name) for a literal prefix.
StartsWith(name, prefix) ==
    /\ Len(name) >= Len(prefix)
    /\ SubSeq(name, 1, Len(prefix)) = prefix

\* _prefixed_name: <<new name>>, or <<>> for None when the prefix is absent.
PrefixedName(name, prefix) ==
    IF StartsWith(name, prefix)
    THEN <<ClassFormat(SubSeq(name, Len(prefix) + 1, Len(name)))>>
    ELSE <<>>

ToBePrefix(name) == PrefixedName(name, <<"t", "o", "_", "b", "e", "_">>)

IsPrefix(name) == PrefixedName(name, <<"i", "s", "_">>)

\* _reserved_names: the irregular names.
ReservedNames(name) ==
    IF name = <<"d", "o", "e", "s">>
    THEN <<(<<"P", "r", "e", "d", "i", "c", "a", "t", "e">>)>>
    ELSE IF name = <<"d", "o", "e", "s", "_", "n", "o", "t">>
    THEN <<(<<"N", "o", "t">>)>>
    ELSE <<>>

\* The name_formatters list, in the order it is tried.
NameFormatters_PrefixFirst ==
    <<"_to_be_prefix", "_is_prefix", "_class_format", "_reserved_names">>

NameFormatters == <<"_class_format", "_to_be_prefix", "_is_prefix", "_reserved_names">>

FormatName(formatter, name) ==
    CASE formatter = "_class_format" -> <<ClassFormat(name)>>
      [] formatter = "_to_be_prefix" -> ToBePrefix(name)
      [] formatter = "_is_prefix" -> IsPrefix(name)
      [] OTHER -> ReservedNames(name)

Str(chars) == PyStr(chars)

NotValidMessage(name) ==
    <<Lit("\""), Rep(Str(name)), Lit("\" is not a valid assertion method")>>

\* getattr(verify, name)
GetVerifyAttr(name) ==
    IF name \in DOMAIN VerifyNamespace
    THEN Ret(VerifyNamespace[name])
    ELSE Raise("AttributeError", <<>>)

RECURSIVE TryFormatters(_, _)
\* The loop over name_formatters from the i-th formatter on.
TryFormatters(name, i) ==
    IF i > Len(NameFormatters)
    THEN Raise("AttributeError", NotValidMessage(name))
    ELSE LET new_name == FormatName(NameFormatters[i], name)
         IN  IF new_name = <<>> THEN TryFormatters(name, i + 1)
             ELSE IF GetVerifyAttr(new_name[1]).out = "return"
             THEN GetVerifyAttr(new_name[1])
             ELSE TryFormatters(name, i + 1)

\* _find_assertion_class
FindAssertionClass_FormatFirst(name) == TryFormatters(name, 1)

FindAssertionClass(name) ==
    IF GetVerifyAttr(name).out = "return"
    THEN GetVerifyAttr(name)
    ELSE TryFormatters(name, 1)

(***************************************************************************)
(* The expect runner of verify/runners.py                                  *)
(***************************************************************************)
\* The session object; a session is one object for its whole lifetime.
Self == [t |-> "expect", id |-> 1]

Chained(assertion) == [t |-> "chained_assertion", assertion |-> assertion]

\* expect.__getattr__: the chained callable, or AttributeError when the name
\* does not resolve to an assertion.
ExpectGetattr_Lazy(name) ==
    Ret(Chained(IF FindAssertionClass(name).out = "return"
                THEN FindAssertionClass(name).val
                ELSE PyNone))

ExpectGetattr(name) ==
    LET r == FindAssertionClass(name)
    IN  IF r.out # "return" THEN r
        ELSE IF ~IsAssertion(r.val) THEN Raise("AttributeError", NotValidMessage(name))
        ELSE Ret(Chained(r.val))

Step(res, sess, applied) == [res |-> res, session |-> sess, applied |-> applied]

\* The end of chained_assertion, given what the evaluation did: return self.
ChainedReturn_KeepsResult(sess, r) ==
    IF r.out # "return" THEN Step(r, sess, <<1>>)
    ELSE Step(Ret(Self), [value |-> r.val], <<1>>)

ChainedReturn(sess, r) ==
    IF r.out # "return" THEN Step(r, sess, <<1>>) ELSE Step(Ret(Self), sess, <<1>>)

\* assertion(*args, **kargs)(self.value), given what the construction did.
ChainedEvaluate(sess, made) ==
    IF made.out # "return" THEN Step(made, sess, <<>>)
    ELSE ChainedReturn(sess, Call(made.val, sess.value, NoOpts))

\* chained_assertion(*args, **kargs): the result, the session afterwards and
\* the evaluations made against the held value.
ChainedAssertion(sess, assertion, args, kargs) ==
    ChainedEvaluate(sess, Construct(assertion.cls, args, kargs))

\* What expect.__call__ applies for one argument: a non-assertion is wrapped in
\* Predicate.
BatchWrap_NoWrap(assertion) == assertion

BatchWrap(assertion) ==
    IF ~IsAssertion(assertion)
    THEN Construct("Predicate", <<assertion>>, NoOpts).val
    ELSE assertion

Applied(i, rest) == Step(rest.res, rest.session, <<i>> \o rest.applied)

\* A loop that applies every argument and raises the first failure at its end.
AppliedAll(i, r, rest) ==
    Step(IF r.out # "return" THEN r ELSE rest.res, rest.session, <<i>> \o rest.applied)

RECURSIVE ExpectCallFrom_RunAll(_, _, _)
ExpectCallFrom_RunAll(sess, assertions, i) ==
    IF i > Len(assertions)
    THEN Step(Ret(Self), sess, <<>>)
    ELSE AppliedAll(i, Call(BatchWrap(assertions[i]), sess.value, NoOpts),
                    ExpectCallFrom_RunAll(sess, assertions, i + 1))

RECURSIVE ExpectCallFrom(_, _, _)

\* An iteration that goes on after a failure and raises the last failure.
LastFailure(i, r, rest) ==
    Step(IF rest.res.out # "return" THEN rest.res ELSE r, rest.session,
         <<i>> \o rest.applied)

BatchStep_KeepsGoing(sess, assertions, i, r) ==
    IF r.out # "return"
    THEN LastFailure(i, r, ExpectCallFrom(sess, assertions, i + 1))
    ELSE Applied(i, ExpectCallFrom(sess, assertions, i + 1))

\* One iteration of the loop, given what applying the i-th argument did.
BatchStep(sess, assertions, i, r) ==
    IF r.out # "return" THEN Step(r, sess, <<i>>)
    ELSE Applied(i, ExpectCallFrom(sess, assertions, i + 1))

\* expect.__call__: the for loop from the i-th argument on; a raise ends it.
ExpectCallFrom(sess, assertions, i) ==
    IF i > Len(assertions)
    THEN Step(Ret(Self), sess, <<>>)
    ELSE BatchStep(sess, assertions, i,
                   Call(BatchWrap(assertions[i]), sess.value, NoOpts))

ExpectCall(sess, assertions) == ExpectCallFrom(sess, assertions, 1)

\* expect.__init__: the value is stored, then the checks, if any, are run as a
\* batch on the new session.
ExpectInit_NoChecks(value, assertions) == Step(Ret(Self), [value |-> value], <<>>)

ExpectInit(value, assertions) ==
    IF assertions # <<>>
    THEN ExpectCall([value |-> value], assertions)
    ELSE Step(Ret(Self), [value |-> value], <<>>)

(***************************************************************************)
(* Inputs                                                                  *)
(***************************************************************************)
Functions == {Function(n) : n \in FunctionNames}

\* Deferred instances of the one-operand checks and of the value comparators.
PlainInstances ==
    {Instance(c, EmptyDict) : c \in UnaryClasses}
        \cup {Instance(c, [comparable |-> x]) : c \in ValueComparators, x \in Values}

\* Callables handed to Not and Predicate as their comparable.
Callables ==
    Functions \cup PlainInstances
        \cup {Class("Truthy"), Class("Falsy"), Class("IsNone")}
        \cup {Instance("Not", [comparable |-> Instance("Truthy", EmptyDict)]),
              Instance("Not", [comparable |-> Function("is_boolean")]),
              Instance("Predicate", [comparable |-> Function("assert_truthy")])}

\* The positional configuration arguments a class is given.
ArgsFor(cls) ==
    CASE cls \in UnaryClasses -> {<<>>}
      [] cls \in ValueComparators -> {<<c>> : c \in Values}
      [] OTHER -> {<<f>> : f \in Callables}

\* msg options: absent, a literal text, the empty string.
MsgX == <<Lit("X")>>

OptsSet == {NoOpts, WithMsg(MsgX), WithMsg(<<>>)}

\* The checks a batch call is given.
BatchChecks ==
    {Function("is_boolean"), Function("identity"), Function("assert_truthy"),
     Instance("Greater", [comparable |-> PyInt(0)]),
     Instance("Not", [comparable |-> Function("is_none")]),
     Class("Equal")}

BatchArgs == UNION {[1..n -> BatchChecks] : n \in 0..MaxBatch}

\* Attribute names tried on a session besides the names the library binds.
OtherNames ==
    {<<"n","o","s","u","c","h","m","e","t","h","o","d">>,
     <<"t","r","u","t","h","y">>,
     <<"g","r","e","a","t","e","r","_","e","q","u","a","l">>,
     <<"i","s","_","g","r","e","a","t","e","r","_","e","q","u","a","l">>,
     <<"t","o","_","b","e","_","n","o","t","_","a","l","l">>,
     <<"t","o","_","b","e","_","i","s","_","n","o","n","e">>,
     <<"i","s","_","N","o","t">>,
     <<"i","s","_","_","n","o","t">>,
     <<"I","S","_","N","O","T">>,
     <<"i","s","N","o","n","e">>,
     <<"n","o","t","_","s","e","t">>,
     <<"n","e","g","a","t","e">>,
     <<"i","s","_","n","e","g","a","t","e">>,
     <<"i","s","_","e","x","p","e","c","t">>,
     <<"t","o","_","b","e","_">>,
     <<"d","o","e","s","_">>,
     <<"t","o","_","n","o","t","_","b","e","_","a","l","l">>,
     <<>>}

AttrNames ==
    DOMAIN VerifyNamespace \cup OtherNames \cup {a.alias : a \in DocumentedAliases}

\* Names the library binds that are tried on a session that goes on to call them.
BoundNames ==
    {<<"T","r","u","t","h","y">>, <<"F","a","l","s","y">>, <<"N","o","t">>,
     <<"P","r","e","d","i","c","a","t","e">>, <<"E","q","u","a","l">>,
     <<"N","o","t","E","q","u","a","l">>, <<"I","s">>, <<"I","s","N","o","t">>,
     <<"I","s","T","r","u","e">>, <<"I","s","N","o","t","T","r","u","e">>,
     <<"I","s","F","a","l","s","e">>, <<"I","s","N","o","t","F","a","l","s","e">>,
     <<"I","s","N","o","n","e">>, <<"I","s","N","o","t","N","o","n","e">>,
     <<"G","r","e","a","t","e","r">>, <<"G","r","e","a","t","e","r","E","q","u","a","l">>,
     <<"L","e","s","s">>, <<"L","e","s","s","E","q","u","a","l">>,
     <<"i","s","_","t","r","u","t","h","y">>, <<"d","o","e","s">>,
     <<"d","o","e","s","_","n","o","t">>, <<"i","s","_","n","o","t">>,
     <<"t","o","_","b","e","_","g","r","e","a","t","e","r">>,
     <<"i","s","_","n","o","t","_","e","q","u","a","l">>,
     <<"e","x","p","e","c","t">>, <<"e","n","s","u","r","e">>,
     <<"N","e","g","a","t","e">>, <<"N","o","t","S","e","t">>,
     <<"U","n","i","q","u","e">>}

SessionNames == BoundNames \cup OtherNames

\* Callables handed to Not and Predicate in a chained call.
ChainCallables ==
    Functions \cup
        {Instance("Truthy", EmptyDict), Instance("IsNone", EmptyDict),
         Instance("Equal", [comparable |-> PyInt(1)]),
         Instance("Greater", [comparable |-> PyInt(0)]),
         Class("Truthy"), Class("Falsy")}

ChainArgsFor(cls) ==
    IF cls \in WrapperClasses THEN {<<f>> : f \in ChainCallables} ELSE ArgsFor(cls)

(***************************************************************************)
(* State machine                                                           *)
(***************************************************************************)
NoConfig == [form |-> "", cls |-> "", args |-> <<>>, opts |-> NoOpts]

Outcome(op, inp, r, applied) ==
    [op |-> op, inp |-> inp, out |-> r.out, ret |-> r.val, msg |-> r.msg,
     applied |-> applied]

Started == Outcome("init", PyNone, Ret(PyNone), <<>>)

\* expect(value): a session holding value.
Init ==
    /\ session \in {[value |-> v] : v \in Values}
    /\ obj = PyNone
    /\ config = NoConfig
    /\ last = Started

\* session.<name>
GetAttr(name) ==
    /\ last' = Outcome("getattr", Str(name), ExpectGetattr(name), <<>>)
    /\ UNCHANGED <<session, obj, config>>

\* session.<name>(*args, **opts): the call of the callable just obtained.
CallChained(args, opts) ==
    /\ last.op = "getattr"
    /\ last.out = "return"
    /\ last.ret.assertion.t = "class"
    /\ last.ret.assertion.cls \in ModelledClasses
    /\ args \in ChainArgsFor(last.ret.assertion.cls)
    /\ LET c == ChainedAssertion(session, last.ret.assertion, args, opts)
       IN  /\ last' = Outcome("chained",
                              [cls |-> last.ret.assertion.cls, args |-> args, opts |-> opts],
                              c.res, c.applied)
           /\ session' = c.session
    /\ UNCHANGED <<obj, config>>

\* session(*assertions)
Batch(assertions) ==
    /\ LET c == ExpectCall(session, assertions)
       IN  /\ last' = Outcome("batch", [assertions |-> assertions], c.res, c.applied)
           /\ session' = c.session
    /\ UNCHANGED <<obj, config>>

Next ==
    \/ \E name \in SessionNames : GetAttr(name)
    \/ \E args \in UNION {ChainArgsFor(c) : c \in ModelledClasses}, opts \in OptsSet :
           CallChained(args, opts)
    \/ \E assertions \in BatchArgs : Batch(assertions)

Spec == Init /\ [][Next]_vars

\* Attribute access alone, over every name the library binds and the other names.
InitNames ==
    /\ session = [value |-> PyNone]
    /\ obj = PyNone
    /\ config = NoConfig
    /\ last = Started

\* verify.<name>: the attribute of the package itself.
Lookup(name) ==
    /\ last' = Outcome("lookup", Str(name), GetVerifyAttr(name), <<>>)
    /\ UNCHANGED <<session, obj, config>>

NextNames ==
    \/ \E name \in AttrNames : GetAttr(name)
    \/ \E name \in AttrNames : Lookup(name)

SpecNames == InitNames /\ [][NextNames]_vars

(***************************************************************************)
(* Sessions constructed with checks                                        *)
(***************************************************************************)
\* No session object exists: none was constructed, or its construction raised.
NoSession == [value |-> NotSet]

InitNew ==
    /\ session = NoSession
    /\ obj = PyNone
    /\ config = NoConfig
    /\ last = Started

\* expect(value, *assertions)
New(value, assertions) ==
    /\ session = NoSession
    /\ last = Started
    /\ LET c == ExpectInit(value, assertions)
       IN  /\ last' = Outcome("new", [value |-> value, assertions |-> assertions],
                              c.res, c.applied)
           /\ session' = IF c.res.out = "return" THEN c.session ELSE NoSession
    /\ UNCHANGED <<obj, config>>

\* session(*assertions) on the session that was constructed.
BatchOnSession(assertions) ==
    /\ session # NoSession
    /\ Batch(assertions)

NextNew ==
    \/ \E value \in Values, assertions \in BatchArgs : New(value, assertions)
    \/ \E assertions \in BatchArgs : BatchOnSession(assertions)

SpecNew == InitNew /\ [][NextNew]_vars

(***************************************************************************)
(* Assertions used directly, without a runner                              *)
(***************************************************************************)
InitAssert ==
    /\ session = [value |-> PyNone]
    /\ obj = PyNone
    /\ config = NoConfig
    /\ last = Started

\* cls(*args, **opts) without a subject: the deferred form.
Configure(cls, args, opts) ==
    /\ obj = PyNone
    /\ last = Started
    /\ LET r == Construct(cls, args, opts)
       IN  /\ obj' = r.val
           /\ last' = Outcome("configure", PyNone, r, InitEvaluations(cls, args))
    /\ config' = [form |-> "deferred", cls |-> cls, args |-> args, opts |-> opts]
    /\ UNCHANGED session

\* A call that keeps its subject on the instance as the comparable.
Invoke_KeepsSubject(value, opts) ==
    /\ obj.t = "instance"
    /\ last' = Outcome("invoke", [value |-> value, opts |-> opts],
                       InstanceCall(obj, value, opts), <<value>>)
    /\ obj' = Instance(obj.cls, [comparable |-> value])
    /\ UNCHANGED <<session, config>>

\* obj(value, **opts): the configured instance applied to a subject.
Invoke(value, opts) ==
    /\ obj.t = "instance"
    /\ last' = Outcome("invoke", [value |-> value, opts |-> opts],
                       InstanceCall(obj, value, opts), <<value>>)
    /\ UNCHANGED <<session, obj, config>>

\* cls(value, *args, **opts): the immediate form.
Immediate(cls, value, args, opts) ==
    /\ obj = PyNone
    /\ last = Started
    /\ LET r == Construct(cls, <<value>> \o args, opts)
       IN  /\ obj' = r.val
           /\ last' = Outcome("immediate", [value |-> value], r,
                              InitEvaluations(cls, <<value>> \o args))
    /\ config' = [form |-> "immediate", cls |-> cls, args |-> args, opts |-> opts]
    /\ UNCHANGED session

NextAssert ==
    \/ \E cls \in ModelledClasses, opts \in OptsSet :
           \E args \in ArgsFor(cls) : Configure(cls, args, opts)
    \/ \E value \in Values \cup {PyList(<<>>)}, opts \in OptsSet : Invoke(value, opts)
    \/ \E cls \in ModelledClasses, value \in Values \cup {PyList(<<>>)}, opts \in OptsSet :
           \E args \in ArgsFor(cls) : Immediate(cls, value, args, opts)

SpecAssert == InitAssert /\ [][NextAssert]_vars

(***************************************************************************)
(* Range and containment checks used directly                              *)
(***************************************************************************)
CheckInts == {PyInt(n) : n \in 0..MaxInt}

\* The lists of at most two of the ints.
CheckLists ==
    {PyList(<<>>)} \cup {PyList(<<a>>) : a \in CheckInts}
        \cup {PyList(<<a, b>>) : a \in CheckInts, b \in CheckInts}

\* Subjects and comparables: None, True, ints, lists and a str.
CheckValues == {PyNone, PyTrue} \cup CheckInts \cup CheckLists \cup {PyStr(<<"a">>)}

\* The dicts of at most two keys with ints as values.
CheckDicts ==
    {PyDict(<<>>, <<>>)} \cup {PyDict(<<PyStr(<<"a">>)>>, <<x>>) : x \in CheckInts}
        \cup {PyDict(<<PyStr(<<"a">>), PyStr(<<"b">>)>>, <<x, y>>) :
                  x \in CheckInts, y \in CheckInts}

\* The lists of at most two predicates: one answers a bool, one hands its
\* argument back, one asserts and answers None.
PredicateLists ==
    {PyList(<<>>)}
        \cup {PyList(<<Function(f)>>) : f \in {"is_none", "identity", "assert_truthy"}}
        \cup {PyList(<<Function(f), Function(g)>>) :
                  f \in {"is_none", "identity", "assert_truthy"},
                  g \in {"is_none", "identity", "assert_truthy"}}

\* Patterns and formats of literal characters.
CheckPatterns == {PyStr(<<"a">>), PyStr(<<"b">>)}

\* The subjects a check is applied to: dicts go to the uniqueness checks, a
\* longer str to the checks of a str.
Subjects(cls) ==
    CASE cls \in UniqueClasses -> CheckValues \cup CheckDicts
      [] cls \in TextClasses -> CheckValues \cup {PyStr(<<"a", "b">>)}
      [] OTHER -> CheckValues

\* A bound of a range: an int, or None for no bound.
Bounds == {PyNone} \cup CheckInts

\* A pair (min, max) given as one positional argument.
BoundPairs == {PyList(<<m, M>>) : m \in Bounds, M \in Bounds}

\* msg strings: 'X', '{0}', '{comparable}' and '{x}'.
MsgTemplates == {MsgX, <<Fld("0")>>, <<Fld("comparable")>>, <<Fld("x")>>}

\* The options min and max, each given or left out.
RangeOpts ==
    {[msg |-> <<>>, min |-> m, max |-> M] : m \in Bounds, M \in Bounds}
        \cup {[msg |-> <<>>, min |-> m] : m \in CheckInts}
        \cup {[msg |-> <<>>, max |-> M] : M \in CheckInts}
        \cup {NoOpts}

CheckClasses ==
    RangeClasses \cup ContainerComparators \cup UniqueClasses \cup TextClasses
        \cup JunctionClasses \cup {"Equal", "NotEqual"}

\* The positional arguments and options a check is configured with.
Configs(cls) ==
    CASE cls \in RangeClasses ->
            {[args |-> <<>>, opts |-> o] : o \in RangeOpts}
                \cup {[args |-> <<p>>, opts |-> NoOpts] : p \in BoundPairs \cup CheckInts}
                \cup {[args |-> <<>>,
                       opts |-> [msg |-> <<t>>, min |-> PyInt(1), max |-> PyInt(1)]] :
                          t \in MsgTemplates}
      [] cls \in ContainerComparators ->
            {[args |-> <<c>>, opts |-> NoOpts] : c \in CheckValues}
      [] cls \in UniqueClasses -> {[args |-> <<>>, opts |-> NoOpts]}
      [] cls \in TextClasses -> {[args |-> <<c>>, opts |-> NoOpts] : c \in CheckPatterns}
      [] cls \in JunctionClasses ->
            {[args |-> <<ps>>, opts |-> NoOpts] : ps \in PredicateLists}
      [] OTHER ->
            {[args |-> <<c>>, opts |-> o] :
                c \in CheckInts, o \in {NoOpts} \cup {WithMsg(t) : t \in MsgTemplates}}

CallOpts == {NoOpts} \cup {WithMsg(t) : t \in MsgTemplates}

\* The first call of a newly constructed instance.
InvokeNew(value, opts) ==
    /\ last.op \in {"configure", "immediate"}
    /\ Invoke(value, opts)

NextChecks ==
    \/ \E cls \in CheckClasses : \E c \in Configs(cls) : Configure(cls, c.args, c.opts)
    \/ \E value \in UNION {Subjects(cls) : cls \in CheckClasses}, opts \in CallOpts :
           /\ obj.t = "instance"
           /\ value \in Subjects(obj.cls)
           /\ InvokeNew(value, opts)
    \/ \E cls \in CheckClasses :
           \E value \in Subjects(cls), c \in Configs(cls) :
               Immediate(cls, value, c.args, c.opts)

SpecChecks == InitAssert /\ [][NextChecks]_vars

(***************************************************************************)
(* Properties                                                              *)
(***************************************************************************)
Chars(n) == n.chars

UpTo(n) == [i \in 1..n |-> i]

\* What the operation op(v, c) of a value comparator decides, negated for the
\* Negate classes.
OpVerdict(cls, v, c) ==
    IF Op2(OpOwner(cls), v, c).out # "return" THEN Op2(OpOwner(cls), v, c).out
    ELSE IF Truth(Op2(OpOwner(cls), v, c).val) # IsSubclass(cls, "Negate") THEN "return"
    ELSE "AssertionError"

\* The deferred form C(c)(v, **opts).
Deferred(cls, c, v, opts) == InstanceCall(Construct(cls, <<c>>, NoOpts).val, v, opts)

\* C1: for every Comparator-based check the immediate form C(v, c) has the same
\* outcome as the deferred form C(c)(v): both succeed or both raise the check
\* failure, and the operation is applied as op(v, c).
C1_ImmediateEqualsDeferred ==
    (last.op = "immediate" /\ config.cls \in ComparatorClasses) =>
        /\ last.out = Deferred(config.cls, config.args[1], last.inp.value, config.opts).out
        /\ last.msg = Deferred(config.cls, config.args[1], last.inp.value, config.opts).msg
        /\ config.cls \in ValueComparators =>
               last.out = OpVerdict(config.cls, last.inp.value, config.args[1])

\* Greater(0, 1) was evaluated at once and failed: 0 > 1, not 1 > 0, was asked.
C1_Witness ==
    /\ last.op = "immediate"
    /\ config.cls = "Greater"
    /\ last.inp.value = PyInt(0)
    /\ config.args = <<PyInt(1)>>
    /\ last.out = "AssertionError"

\* C2: Not(C(O))(v) succeeds iff C(O)(v) raises the check failure and raises the
\* check failure iff C(O)(v) succeeds; the failure Not raises is its own.
C2_NotNegates ==
    (last.op = "invoke" /\ obj.cls = "Not" /\ obj.dict.comparable.t = "instance") =>
        /\ (last.out = "return") <=>
               (InstanceCall(obj.dict.comparable, last.inp.value, NoOpts).out
                    = "AssertionError")
        /\ (last.out = "AssertionError") <=>
               (InstanceCall(obj.dict.comparable, last.inp.value, NoOpts).out = "return")
        /\ (last.out = "AssertionError") =>
               last.msg = FormatMsg(obj, last.inp.value, last.inp.opts).text

\* Not(Greater(0))(0) succeeded because Greater(0)(0) raised.
C2_Witness ==
    /\ last.op = "invoke"
    /\ obj = Instance("Not", [comparable |-> Instance("Greater", [comparable |-> PyInt(0)])])
    /\ last.inp.value = PyInt(0)
    /\ last.out = "return"

\* C3: a msg option given when a check is configured is the message of the
\* failure the deferred form later raises.
C3_ConfiguredMsgUsed ==
    (/\ last.op = "invoke"
     /\ config.form = "deferred"
     /\ config.opts = WithMsg(MsgX)
     /\ last.inp.opts = NoOpts
     /\ last.out = "AssertionError") => last.msg = MsgX

\* The verdict the Predicate wrapper gives to what a function did.
PredicateVerdict(f, v) ==
    IF FnApply(f.name, v).out = "return"
    THEN IF FnApply(f.name, v).val = PyNone \/ Truth(FnApply(f.name, v).val)
         THEN "return"
         ELSE "AssertionError"
    ELSE FnApply(f.name, v).out

\* A check applied on its own to the held value, a plain function as Predicate(f).
Solo(a, v) ==
    Call(IF a.t = "function" THEN Instance("Predicate", [comparable |-> a]) ELSE a,
         v, NoOpts)

\* C4 as claimed: every supplied check of a batch call is applied, also the
\* checks after a failing one.
C4_AllChecksApplied ==
    (last.op = "batch") => last.applied = UpTo(Len(last.inp.assertions))

\* C4 amended: a supplied check is applied exactly when no check before it
\* raised; the checks after a failing check are not applied.
C4_AppliedUntilFailure ==
    (last.op = "batch") =>
        \A i \in 1..Len(last.inp.assertions) :
            (\E k \in 1..Len(last.applied) : last.applied[k] = i) <=>
                (\A j \in 1..(i - 1) :
                     Solo(last.inp.assertions[j], session.value).out = "return")

\* A batch of two whose first check failed: the second was not applied.
C4_Witness ==
    /\ last.op = "batch"
    /\ Len(last.inp.assertions) = 2
    /\ last.out = "AssertionError"
    /\ last.applied = <<1>>

\* C5: the checks of a batch are applied in argument order and the first raise
\* ends the batch: the error is that of the earliest failing check.
C5_FirstFailureEndsBatch ==
    (last.op = "batch") =>
        /\ last.applied = UpTo(Len(last.applied))
        /\ (last.out # "return") =>
               /\ Len(last.applied) \in 1..Len(last.inp.assertions)
               /\ \A j \in 1..(Len(last.applied) - 1) :
                      Solo(last.inp.assertions[j], session.value).out = "return"
               /\ last.out =
                      Solo(last.inp.assertions[Len(last.applied)], session.value).out
               /\ last.msg =
                      Solo(last.inp.assertions[Len(last.applied)], session.value).msg

\* Both checks of a batch fail on their own, with different messages, and the
\* batch raised.
C5_Witness ==
    /\ last.op = "batch"
    /\ Len(last.inp.assertions) = 2
    /\ Solo(last.inp.assertions[1], session.value).out = "AssertionError"
    /\ Solo(last.inp.assertions[2], session.value).out = "AssertionError"
    /\ Solo(last.inp.assertions[1], session.value).msg
           # Solo(last.inp.assertions[2], session.value).msg
    /\ last.out = "AssertionError"

\* C6: Predicate(f)(v) succeeds iff f(v) returns a truthy value or None, and
\* raises its own check failure iff f(v) returns a falsy value that is not None
\* or raises AssertionError.
C6_PredicateVerdict ==
    (last.op = "invoke" /\ obj.cls = "Predicate" /\ obj.dict.comparable.t = "function") =>
        /\ (last.out = "return") <=>
               /\ FnApply(obj.dict.comparable.name, last.inp.value).out = "return"
               /\ \/ FnApply(obj.dict.comparable.name, last.inp.value).val = PyNone
                  \/ Truth(FnApply(obj.dict.comparable.name, last.inp.value).val)
        /\ (last.out = "AssertionError") <=>
               \/ FnApply(obj.dict.comparable.name, last.inp.value).out = "AssertionError"
               \/ /\ FnApply(obj.dict.comparable.name, last.inp.value).out = "return"
                  /\ FnApply(obj.dict.comparable.name, last.inp.value).val # PyNone
                  /\ ~Truth(FnApply(obj.dict.comparable.name, last.inp.value).val)
        /\ (last.out = "AssertionError") =>
               last.msg = FormatMsg(obj, last.inp.value, last.inp.opts).text

\* Predicate(assert_truthy)(True) succeeded although assert_truthy returned None.
C6_Witness ==
    /\ last.op = "invoke"
    /\ obj = Instance("Predicate", [comparable |-> Function("assert_truthy")])
    /\ last.inp.value = PyTrue
    /\ last.out = "return"

\* C7: a batch of plain functions has the outcome of the Predicate wrapper: it
\* passes iff every function returns a truthy value or None for the held value,
\* and otherwise raises the check failure, that of Predicate(f)(v).
C7_BatchWrapsFunctions ==
    (/\ last.op = "batch"
     /\ \A i \in 1..Len(last.inp.assertions) : last.inp.assertions[i].t = "function") =>
        /\ (last.out = "return") <=>
               \A i \in 1..Len(last.inp.assertions) :
                   PredicateVerdict(last.inp.assertions[i], session.value) = "return"
        /\ last.out \in {"return", "AssertionError"}
        /\ (Len(last.inp.assertions) = 1) =>
               /\ last.out = Deferred("Predicate", last.inp.assertions[1],
                                      session.value, NoOpts).out
               /\ last.msg = Deferred("Predicate", last.inp.assertions[1],
                                      session.value, NoOpts).msg

\* expect(0, identity) raised: identity returned the falsy 0.
C7_Witness ==
    /\ last.op = "batch"
    /\ last.inp.assertions = <<Function("identity")>>
    /\ session.value = PyInt(0)
    /\ last.out = "AssertionError"

\* C8: no chained or batch call changes the held value, a successful call
\* returns the session itself, and the outcome of a chained check is that of
\* the check built from its arguments applied to the held value.
C8_SessionKeepsValue ==
    [][/\ session' = session
       /\ (last'.op \in {"chained", "batch"} /\ last'.out = "return") => last'.ret = Self
       /\ (last'.op = "chained") =>
              last'.out = Call(Construct(last'.inp.cls, last'.inp.args, last'.inp.opts).val,
                               session.value, NoOpts).out]_vars

\* A chained Falsy() succeeded on a session that holds 0 and returned it.
C8_Witness ==
    /\ last.op = "chained"
    /\ last.inp.cls = "Falsy"
    /\ session.value = PyInt(0)
    /\ last.out = "return"
    /\ last.ret = Self

\* The names that the resolution tries, in its order: the name, its class-style
\* form, that form without the prefix to_be_, without the prefix is_, and the
\* irregular name.
Candidates(name) ==
    <<name, ClassFormat(name)>> \o ToBePrefix(name) \o IsPrefix(name) \o ReservedNames(name)

FirstKnown(cands) ==
    cands[CHOOSE i \in 1..Len(cands) :
              /\ cands[i] \in DOMAIN VerifyNamespace
              /\ \A j \in 1..(i - 1) : cands[j] \notin DOMAIN VerifyNamespace]

ResolvesTo(name, cls) ==
    (last.inp = Str(name)) => (last.out = "return" /\ last.ret = Chained(Class(cls)))

\* C9: a name resolves to the first of its candidates that the library binds;
\* a bound name is never transformed, and the class-style form of the whole
\* name wins over the form without its prefix.
C9_ResolutionOrder ==
    (last.op = "getattr") =>
        /\ (\E i \in 1..Len(Candidates(Chars(last.inp))) :
                Candidates(Chars(last.inp))[i] \in DOMAIN VerifyNamespace) =>
               IF IsAssertion(VerifyNamespace[FirstKnown(Candidates(Chars(last.inp)))])
               THEN /\ last.out = "return"
                    /\ last.ret = Chained(VerifyNamespace[
                                              FirstKnown(Candidates(Chars(last.inp)))])
               ELSE last.out = "AttributeError"
        /\ (Chars(last.inp) \in DOMAIN VerifyNamespace /\ last.out = "return") =>
               last.ret = Chained(VerifyNamespace[Chars(last.inp)])
        /\ ResolvesTo(<<"i","s","_","n","o","t">>, "IsNot")
        /\ ResolvesTo(<<"i","s","_","n","o","n","e">>, "IsNone")
        /\ ResolvesTo(<<"i","s","_","N","o","t">>, "IsNot")
        /\ ResolvesTo(<<"g","r","e","a","t","e","r","_","e","q","u","a","l">>, "GreaterEqual")
        /\ ResolvesTo(<<"i","s","_","g","r","e","a","t","e","r","_","e","q","u","a","l">>,
                      "GreaterEqual")
        /\ ResolvesTo(<<"t","o","_","b","e","_","n","o","t","_","a","l","l">>, "NotAll")
        /\ ResolvesTo(<<"d","o","e","s">>, "Predicate")
        /\ ResolvesTo(<<"d","o","e","s","_","n","o","t">>, "Not")

\* is_Not is not bound; its class-style form IsNot is, and so is Not.
C9_Witness ==
    /\ last.op = "getattr"
    /\ last.inp = Str(<<"i","s","_","N","o","t">>)
    /\ last.out = "return"
    /\ last.ret = Chained(Class("IsNot"))

\* C10: a name none of whose candidates is a check raises AttributeError at
\* the attribute access: no callable is returned and nothing is evaluated.
C10_UnknownNameRaises ==
    (/\ last.op = "getattr"
     /\ \A i \in 1..Len(Candidates(Chars(last.inp))) :
            \/ Candidates(Chars(last.inp))[i] \notin DOMAIN VerifyNamespace
            \/ ~IsAssertion(VerifyNamespace[Candidates(Chars(last.inp))[i]])) =>
        /\ last.out = "AttributeError"
        /\ last.msg = NotValidMessage(Chars(last.inp))
        /\ last.ret = PyNone
        /\ last.applied = <<>>

\* nosuchmethod was accessed on a session and AttributeError was raised.
C10_Witness ==
    /\ last.op = "getattr"
    /\ last.inp = Str(<<"n","o","s","u","c","h","m","e","t","h","o","d">>)
    /\ last.out = "AttributeError"

\* An assertion type: a class derived from Assertion.
IsAssertionType(o) == o.t = "class" /\ IsSubclass(o.cls, "Assertion")

C12_NonAssertionRejected ==
    (last.op = "getattr") =>
        /\ (/\ FindAssertionClass(Chars(last.inp)).out = "return"
            /\ ~IsAssertionType(FindAssertionClass(Chars(last.inp)).val)) =>
               /\ last.out = "AttributeError"
               /\ last.msg = NotValidMessage(Chars(last.inp))
               /\ last.ret = PyNone
        /\ (Chars(last.inp) \in {<<"e","x","p","e","c","t">>, <<"e","n","s","u","r","e">>}) =>
               /\ last.out = "AttributeError"
               /\ last.msg = NotValidMessage(Chars(last.inp))
        /\ (last.out = "return") =>
               /\ last.ret.t = "chained_assertion"
               /\ IsAssertionType(last.ret.assertion)

\* session.ensure was accessed: ensure is bound, to the runner, and was rejected.
C12_Witness ==
    /\ last.op = "getattr"
    /\ last.inp = Str(<<"e","n","s","u","r","e">>)
    /\ GetVerifyAttr(<<"e","n","s","u","r","e">>).out = "return"
    /\ last.out = "AttributeError"
    /\ last.msg = NotValidMessage(<<"e","n","s","u","r","e">>)

\* C13: expect(v, c1, ..., cn) does what expect(v)(c1, ..., cn) does: the same
\* checks are applied in the same order, the same failure is raised, or the
\* result is a session that holds v.
C13_InitRunsBatch ==
    (last.op = "new") =>
        /\ last.out = ExpectCall([value |-> last.inp.value], last.inp.assertions).res.out
        /\ last.msg = ExpectCall([value |-> last.inp.value], last.inp.assertions).res.msg
        /\ last.applied = ExpectCall([value |-> last.inp.value], last.inp.assertions).applied
        /\ (last.out = "return") =>
               /\ last.ret = Self
               /\ session = [value |-> last.inp.value]

\* A session constructed with two checks, the second of which failed.
C13_Witness ==
    /\ last.op = "new"
    /\ Len(last.inp.assertions) = 2
    /\ last.applied = <<1, 2>>
    /\ last.out = "AssertionError"
    /\ session = NoSession

\* The class a docstring documents a name as an alias of.
DocumentedClasses(name) == {a.cls : a \in {b \in DocumentedAliases : b.alias = name}}

\* C14: every name listed under Aliases in a check's documentation is bound by
\* the library, to the class of that check.
C14_AliasIdentity ==
    (last.op = "lookup") =>
        \A cls \in DocumentedClasses(Chars(last.inp)) :
            /\ last.out = "return"
            /\ last.ret = Class(cls)

\* The positive check a Negate class is built over.
Positive(cls) == ClassBases[cls][2]

\* An evaluation of a subject: a call of an instance or an immediate construction.
Evaluated == last.op \in {"invoke", "immediate"}

\* No msg option is in effect for the evaluation.
NoMsg ==
    /\ last.op = "immediate" => config.opts.msg = <<>>
    /\ last.op = "invoke" => last.inp.opts.msg = <<>>

\* C15: for every Not* class built by Negate over a check X, NotX(O)(v) succeeds
\* iff X(O)(v) raises the check failure, and raises the check failure iff
\* X(O)(v) succeeds.
C15_NegateComplements ==
    (last.op = "invoke" /\ IsSubclass(obj.cls, "Negate") /\ last.inp.opts = NoOpts) =>
        /\ (last.out = "return") <=>
               (InstanceCall(Instance(Positive(obj.cls), obj.dict), last.inp.value,
                             NoOpts).out = "AssertionError")
        /\ (last.out = "AssertionError") <=>
               (InstanceCall(Instance(Positive(obj.cls), obj.dict), last.inp.value,
                             NoOpts).out = "return")

\* NotLength(min=1, max=1)([]) succeeded: Length(min=1, max=1)([]) fails.
C15_Witness ==
    /\ last.op = "invoke"
    /\ obj = Instance("NotLength", [min |-> PyInt(1), max |-> PyInt(1)])
    /\ last.inp.value = PyList(<<>>)
    /\ last.inp.opts = NoOpts
    /\ last.out = "return"

\* C16: when a non-empty msg is in effect for a failing evaluation, the
\* evaluation raises AssertionError and the message is exactly msg, also when
\* msg holds replacement fields such as {0}, {comparable} or {x}.
C16_MsgExact ==
    (/\ Evaluated
     /\ IF last.op = "immediate"
        THEN /\ config.opts.msg # <<>>
             /\ config.opts.msg[1] # <<>>
             /\ Construct(config.cls, <<last.inp.value>> \o config.args,
                          [config.opts EXCEPT !.msg = <<>>]).out = "AssertionError"
        ELSE /\ last.inp.opts.msg # <<>>
             /\ last.inp.opts.msg[1] # <<>>
             /\ InstanceCall(obj, last.inp.value, NoOpts).out = "AssertionError") =>
        /\ last.out = "AssertionError"
        /\ last.msg = IF last.op = "immediate" THEN config.opts.msg[1]
                      ELSE last.inp.opts.msg[1]

\* m <= v <= M, where None is no bound.
InRange(v, m, M) == (m = PyNone \/ m.v <= v.v) /\ (M = PyNone \/ v.v <= M.v)

\* C17: Between(v, min=m, max=M) and Between(min=m, max=M)(v) pass iff
\* m <= v <= M; an absent or None bound is no bound, the boundary values pass,
\* and a bound of 0 is a bound.
C17_BetweenInclusive ==
    (/\ Evaluated
     /\ config.cls = "Between"
     /\ config.args = <<>>
     /\ IsNumber(last.inp.value)) =>
        /\ (last.out = "return") <=>
               InRange(last.inp.value, OptOr(config.opts, "min"), OptOr(config.opts, "max"))
        /\ (NoMsg /\ last.out # "return") =>
               /\ last.out = "AssertionError"
               /\ last.msg = <<Rep(last.inp.value), Lit(" is not between "),
                               Rep(OptOr(config.opts, "min")), Lit(" and "),
                               Rep(OptOr(config.opts, "max"))>>

\* Between(1, max=0) failed: the bound 0 is enforced.
C17_Witness ==
    /\ last.op = "immediate"
    /\ config.cls = "Between"
    /\ config.opts = [msg |-> <<>>, max |-> PyInt(0)]
    /\ last.inp.value = PyInt(1)
    /\ last.out = "AssertionError"

\* C18: Between((m, M))(v) passes iff m <= v <= M and NotBetween((m, M))(v)
\* passes iff not: a positional pair gives the bounds as min and max do.
C18_PairBounds ==
    (/\ last.op = "invoke"
     /\ config.form = "deferred"
     /\ config.cls \in {"Between", "NotBetween"}
     /\ config.args \in {<<p>> : p \in BoundPairs}
     /\ IsNumber(last.inp.value)
     /\ last.inp.opts = NoOpts) =>
        ((last.out = "return") <=>
             (InRange(last.inp.value, config.args[1].items[1], config.args[1].items[2])
                  <=> config.cls = "Between"))

\* C19: Length(n) and Length(v, n) with one positional int n assert the exact
\* length: Length(n) is a check, and it passes iff len(v) = n.
C19_ExactLength ==
    (config.cls = "Length" /\ config.args \in {<<n>> : n \in CheckInts}) =>
        /\ (last.op = "configure") => last.out = "return"
        /\ (Evaluated /\ IsIterable(last.inp.value)) =>
               ((last.out = "return") <=> (PyLen(last.inp.value) = config.args[1].v))

\* C20 as claimed: In, Contains and ContainsOnly fail for every subject when
\* the comparable is not iterable.
C20_NonIterableAlwaysFails ==
    (/\ Evaluated
     /\ NoMsg
     /\ config.cls \in {"In", "Contains", "ContainsOnly"}
     /\ ~IsIterable(config.args[1])) => last.out = "AssertionError"

\* C20 amended: In, Contains and ContainsOnly raise nothing but their own
\* failure; a containment test that is not defined for its operands counts as
\* false; ContainsOnly against a non-iterable comparable fails for every
\* subject but the empty iterables, for which it passes.
C20_ContainmentNeverRaises ==
    (Evaluated /\ NoMsg /\ config.cls \in {"In", "Contains", "ContainsOnly"}) =>
        /\ last.out \in {"return", "AssertionError"}
        /\ (config.cls = "In" /\ PyIn(last.inp.value, config.args[1]).out = "TypeError") =>
               last.out = "AssertionError"
        /\ (config.cls = "In" /\ ~IsIterable(config.args[1])) => last.out = "AssertionError"
        /\ (config.cls = "Contains"
                /\ PyIn(config.args[1], last.inp.value).out = "TypeError") =>
               last.out = "AssertionError"
        /\ (config.cls = "ContainsOnly" /\ ~IsIterable(last.inp.value)) =>
               last.out = "AssertionError"
        /\ (config.cls = "ContainsOnly" /\ ~IsIterable(config.args[1])) =>
               ((last.out = "return") <=>
                    (IsIterable(last.inp.value) /\ PyLen(last.inp.value) = 0))

\* In(1, 1) failed with the failure of In: 1 is not iterable.
C20_Witness ==
    /\ last.op = "immediate"
    /\ config.cls = "In"
    /\ config.args = <<PyInt(1)>>
    /\ last.inp.value = PyInt(1)
    /\ last.out = "AssertionError"
    /\ last.msg = <<Rep(PyInt(1)), Lit(" is not in "), Rep(PyInt(1))>>

\* C21: Unique(v) passes iff no two elements of the checked sequence are
\* equal, where the checked sequence of a mapping is its values, not its keys.
C21_UniqueByValues ==
    (/\ Evaluated
     /\ NoMsg
     /\ config.cls = "Unique"
     /\ last.inp.value.t \in {"list", "str", "dict"}) =>
        /\ (last.out = "return") <=>
               (\A i, j \in 1..PyLen(last.inp.value) :
                    i # j =>
                        IF last.inp.value.t = "dict"
                        THEN ~PyEq(last.inp.value.vals[i], last.inp.value.vals[j])
                        ELSE ~PyEq(Items(last.inp.value)[i], Items(last.inp.value)[j]))
        /\ last.out # "return" =>
               /\ last.out = "AssertionError"
               /\ last.msg = <<Rep(last.inp.value), Lit(" contains duplicate items")>>

\* Unique({'a': 0, 'b': 0}) failed: the keys differ, the values are equal.
C21_Witness ==
    /\ last.op = "immediate"
    /\ config.cls = "Unique"
    /\ last.inp.value = PyDict(<<PyStr(<<"a">>), PyStr(<<"b">>)>>, <<PyInt(0), PyInt(0)>>)
    /\ last.out = "AssertionError"

\* C22: a check constructed without a subject evaluates nothing and raises no
\* failure; constructed with a subject it evaluates the subject once during
\* construction, raising on failure and yielding a truthy object on success;
\* every later call of the instance evaluates its subject once.
C22_EvaluatedWhenGiven ==
    /\ last.op = "configure" =>
           /\ last.applied = <<>>
           /\ last.out = "return"
           /\ last.ret = obj
           /\ obj.t = "instance"
    /\ last.op = "immediate" =>
           /\ last.applied = <<last.inp.value>>
           /\ last.out = InstanceCall(Construct(config.cls, config.args, NoOpts).val,
                                      last.inp.value, config.opts).out
           /\ last.msg = InstanceCall(Construct(config.cls, config.args, NoOpts).val,
                                      last.inp.value, config.opts).msg
           /\ last.out = "return" =>
                  /\ last.ret = Construct(config.cls, config.args, NoOpts).val
                  /\ Truth(last.ret)
    /\ last.op = "invoke" =>
           /\ last.applied = <<last.inp.value>>
           /\ last.out = InstanceCall(obj, last.inp.value, last.inp.opts).out

\* Falsy() was constructed without a subject: nothing was evaluated and
\* nothing raised, though no evaluation of NotSet would pass.
C22_Witness ==
    /\ last.op = "configure"
    /\ config.cls = "Falsy"
    /\ config.args = <<>>
    /\ last.applied = <<>>
    /\ last.out = "return"
    /\ obj = Instance("Falsy", EmptyDict)

NegativeForm(name) ==
    \/ StartsWith(name, <<"i","s","_","n","o","t","_">>)
    \/ StartsWith(name, <<"t","o","_","n","o","t","_">>)
    \/ StartsWith(name, <<"d","o","e","s","_","n","o","t","_">>)

\* C24: every alias of negative form is bound to a negated check, a class built
\* by Negate over the positive check, also when it is reached through a
\* session; in particular is_not_match is.
C24_NegativeAliasNegates ==
    (/\ last.op \in {"lookup", "getattr"}
     /\ Chars(last.inp) \in DOMAIN VerifyNamespace
     /\ NegativeForm(Chars(last.inp))) =>
        /\ last.out = "return"
        /\ IF last.op = "lookup"
           THEN last.ret.t = "class" /\ IsSubclass(last.ret.cls, "Negate")
           ELSE last.ret.assertion.t = "class"
                    /\ IsSubclass(last.ret.assertion.cls, "Negate")

\* C25: a call of a configured instance, passing or raising, leaves the
\* instance's configuration unchanged, and its outcome is the outcome of the
\* same call on a newly configured instance, whatever was evaluated before.
C25_InstanceStateless ==
    [][(last.op = "invoke" /\ last'.op = "invoke") =>
           /\ obj' = obj
           /\ obj' = Construct(config.cls, config.args, config.opts).val
           /\ last'.out = InstanceCall(Construct(config.cls, config.args, config.opts).val,
                                       last'.inp.value, last'.inp.opts).out
           /\ last'.msg = InstanceCall(Construct(config.cls, config.args, config.opts).val,
                                       last'.inp.value, last'.inp.opts).msg]_vars

\* Greater(0) was called on 1 and passed; the instance still holds 0.
C25_Witness ==
    /\ last.op = "invoke"
    /\ config.form = "deferred"
    /\ config.cls = "Greater"
    /\ config.args = <<PyInt(0)>>
    /\ obj = Instance("Greater", [comparable |-> PyInt(0)])
    /\ last.inp.value = PyInt(1)
    /\ last.out = "return"

\* C26: when a batch returns, every check it was given was evaluated against
\* the session's value: an instance and a plain function by the call, a bare
\* assertion type, a two-operand Comparator type too, by its construction.
C26_BatchEvaluatesEach ==
    (last.op = "batch" /\ last.out = "return") =>
        \A i \in 1..Len(last.inp.assertions) :
            /\ i \in {last.applied[k] : k \in 1..Len(last.applied)}
            /\ last.inp.assertions[i].t = "class" =>
                   InitEvaluations(last.inp.assertions[i].cls, <<session.value>>)
                       = <<session.value>>

\* The other of the two wrappers Not and Predicate.
OtherWrapper(cls) == IF cls = "Not" THEN "Predicate" ELSE "Not"

\* C27: for a plain function f and a subject v on which f raises nothing but
\* AssertionError, exactly one of Predicate(f)(v) and Not(f)(v) succeeds, also
\* when f(v) returns None.
C27_ExactlyOnePasses ==
    (/\ last.op = "invoke"
     /\ obj.cls \in WrapperClasses
     /\ obj.dict.comparable.t = "function"
     /\ FnApply(obj.dict.comparable.name, last.inp.value).out
            \in {"return", "AssertionError"}) =>
        ((last.out = "return") <=>
             (InstanceCall(Instance(OtherWrapper(obj.cls), obj.dict), last.inp.value,
                           NoOpts).out = "AssertionError"))

\* C28: whether a check is evaluated at once depends on whether a subject is
\* given, not on its value: None, False, 0 and an empty list as the subject are
\* evaluated at once, and None as the comparable is an operand like any other
\* (Is(None, None) passes, Equal(1, None) fails).
C28_AbsenceIsNotSet ==
    /\ (last.op = "immediate" /\ ~Truth(last.inp.value)) =>
           /\ last.applied = <<last.inp.value>>
           /\ config.cls = "Truthy" => last.out = "AssertionError"
           /\ config.cls = "Falsy" => last.out = "return"
           /\ config.cls = "IsNone" => (last.out = "return" <=> last.inp.value = PyNone)
           /\ config.cls = "Equal" =>
                  (last.out = "return" <=> PyEq(last.inp.value, config.args[1]))
    /\ (last.op = "immediate" /\ config.cls \in ValueComparators
            /\ config.args = <<PyNone>>) =>
           /\ last.applied = <<last.inp.value>>
           /\ config.cls = "Is" => (last.out = "return" <=> last.inp.value = PyNone)
           /\ config.cls = "Equal" => (last.out = "return" <=> last.inp.value = PyNone)
           /\ config.cls = "NotEqual" => (last.out = "return" <=> last.inp.value # PyNone)
    /\ (last.op = "configure" /\ config.cls \in ValueComparators) =>
           /\ last.applied = <<>>
           /\ obj = Instance(config.cls, [comparable |-> config.args[1]])

\* Equal(1, None) was evaluated at once and failed: None was the comparable.
C28_Witness ==
    /\ last.op = "immediate"
    /\ config.cls = "Equal"
    /\ config.args = <<PyNone>>
    /\ last.inp.value = PyInt(1)
    /\ last.applied = <<PyInt(1)>>
    /\ last.out = "AssertionError"
    /\ last.msg = <<Rep(PyInt(1)), Lit(" is not equal to "), Rep(PyNone)>>

\* C29: Match and DateString applied to a subject that is not a str, and
\* Length applied to a subject without a length, fail with their own
\* AssertionError and raise no type error; NotMatch, NotDateString and
\* NotLength pass on the same subjects.
C29_WrongTypeFails ==
    (Evaluated /\ NoMsg) =>
        /\ (config.cls \in {"Match", "DateString"} /\ last.inp.value.t # "str") =>
               /\ last.out = "AssertionError"
               /\ last.msg = <<Rep(last.inp.value),
                               Lit(IF config.cls = "Match"
                                   THEN " does not match the regular expression "
                                   ELSE " does not match the datetime format "),
                               Rep(config.args[1])>>
        /\ (config.cls \in {"NotMatch", "NotDateString"} /\ last.inp.value.t # "str") =>
               last.out = "return"
        /\ (config.cls = "Length" /\ config.args = <<>> /\ ~IsIterable(last.inp.value)) =>
               /\ last.out = "AssertionError"
               /\ last.msg = <<Rep(last.inp.value), Lit(" does not have length between "),
                               Rep(OptOr(config.opts, "min")), Lit(" and "),
                               Rep(OptOr(config.opts, "max"))>>
        /\ (config.cls = "NotLength" /\ config.args = <<>> /\ ~IsIterable(last.inp.value)) =>
               last.out = "return"

\* Match(1, 'a') failed with the failure of Match: 1 is not a str.
C29_Witness ==
    /\ last.op = "immediate"
    /\ config.cls = "Match"
    /\ config.args = <<PyStr(<<"a">>)>>
    /\ last.inp.value = PyInt(1)
    /\ last.out = "AssertionError"
    /\ last.msg = <<Rep(PyInt(1)), Lit(" does not match the regular expression "),
                    Rep(PyStr(<<"a">>))>>

\* The i-th predicate of the list returns a truthy result for v.
TruthyAt(ps, v, i) ==
    /\ FnApply(ps[i].name, v).out = "return"
    /\ Truth(FnApply(ps[i].name, v).val)

\* Every predicate of the list returns for v.
NoneRaises(ps, v) == \A i \in 1..Len(ps) : FnApply(ps[i].name, v).out = "return"

====
